---- MODULE Spec2Model ----
(***************************************************************************)
(* Request-processing pipeline of the PolzaGPT worker: the Telegram        *)
(* message handler (authorization gate, query extraction), the KV-backed   *)
(* cache-or-fetch layer over Google Sheets (getExpertData) and the Gemini  *)
(* orchestrator with its model fallback chain (findExpertsWithAI).         *)
(*                                                                         *)
(* Text is modelled as a sequence of one-character strings, so that        *)
(* toString, split, trim and replace are computed rather than assumed.     *)
(* The user-facing Cyrillic literals of the source are written in Latin    *)
(* transliteration; they are only ever compared for equality.              *)
(***************************************************************************)
EXTENDS Integers, Sequences, FiniteSets, TLC

VARIABLES env, kv, now, ticks, served, h, calls, landed

vars == <<env, kv, now, ticks, served, h, calls, landed>>

-----------------------------------------------------------------------------
(* Bounds of the model.                                                    *)

\* number of updates the worker handles in one behaviour
MaxUpdates == 2
\* number of times the clock advances in one behaviour
MaxTicks == 1

-----------------------------------------------------------------------------
(* Text helpers.                                                           *)

IsSpace(c) == c \in {" ", "\n", "\t"}

RECURSIVE TrimStart(_)
TrimStart(s) ==
    IF s = <<>> THEN <<>>
    ELSE IF IsSpace(Head(s)) THEN TrimStart(Tail(s)) ELSE s

RECURSIVE TrimEnd(_)
TrimEnd(s) ==
    IF s = <<>> THEN <<>>
    ELSE IF IsSpace(s[Len(s)]) THEN TrimEnd(SubSeq(s, 1, Len(s) - 1)) ELSE s

\* String.prototype.trim
Trim(s) == TrimEnd(TrimStart(s))

\* String.prototype.split(',') on a non-empty string
RECURSIVE SplitFrom(_, _, _)
SplitFrom(s, i, cur) ==
    IF i > Len(s) THEN <<cur>>
    ELSE IF s[i] = "," THEN <<cur>> \o SplitFrom(s, i + 1, <<>>)
    ELSE SplitFrom(s, i + 1, Append(cur, s[i]))

SplitComma(s) == SplitFrom(s, 1, <<>>)

DigitChar(d) == <<"0", "1", "2", "3", "4", "5", "6", "7", "8", "9">>[d + 1]

RECURSIVE NatToString(_)
NatToString(n) ==
    IF n < 10 THEN <<DigitChar(n)>>
    ELSE Append(NatToString(n \div 10), DigitChar(n % 10))

\* Number.prototype.toString of an integer id
toString(n) == IF n < 0 THEN <<"-">> \o NatToString(0 - n) ELSE NatToString(n)

\* variant: an entry that the id begins with is enough
Includes_StartsWith(arr, s) ==
    \E i \in 1..Len(arr) :
        /\ arr[i] # <<>> /\ Len(arr[i]) <= Len(s)
        /\ arr[i] = SubSeq(s, 1, Len(arr[i]))

\* Array.prototype.includes on an array of strings
Includes(arr, s) == \E i \in 1..Len(arr) : arr[i] = s

-----------------------------------------------------------------------------
(* Whitelist and authorization gate (createBot).                           *)

\* env.ALLOWED_X ? env.ALLOWED_X.split(',').map(id => id.trim()) : []
ParseWhitelist(s) ==
    IF s = <<>> THEN <<>>
    ELSE [i \in 1..Len(SplitComma(s)) |-> Trim(SplitComma(s)[i])]

allowedGroupChatIds == ParseWhitelist(env.ALLOWED_GROUP_CHAT_IDS)

allowedUserIds == ParseWhitelist(env.ALLOWED_USER_IDS)

\* variant: either whitelist authorizes, whatever the chat kind
isAuthorized_EitherList(chatId, userId, isGroup) ==
    \/ Includes(allowedGroupChatIds, toString(chatId))
    \/ Includes(allowedUserIds, toString(userId))

isAuthorized(chatId, userId, isGroup) ==
    IF isGroup
    THEN Includes(allowedGroupChatIds, toString(chatId))
    ELSE Includes(allowedUserIds, toString(userId))

\* ctx.chat.type === 'group' || ctx.chat.type === 'supergroup'
IsGroupChat(chatType) == chatType = "group" \/ chatType = "supergroup"

-----------------------------------------------------------------------------
(* Query extraction (message:text handler).                                *)

MentionToken == <<"@", "p", "o", "l", "z", "a", "7", "9", "b", "o", "t">>

UpperCase == <<"A", "B", "C", "D", "E", "F", "G", "H", "I", "J", "K", "L", "M",
               "N", "O", "P", "Q", "R", "S", "T", "U", "V", "W", "X", "Y", "Z">>

LowerCase == <<"a", "b", "c", "d", "e", "f", "g", "h", "i", "j", "k", "l", "m",
               "n", "o", "p", "q", "r", "s", "t", "u", "v", "w", "x", "y", "z">>

\* The Cyrillic letters that occur in the texts considered.  A Cyrillic
\* letter is one character of a text, written here as the name of the letter:
\* "cy:p" is the small letter pe, "CY:P" the capital one.
CyrillicUpper == <<"CY:A", "CY:B", "CY:V", "CY:D", "CY:E", "CY:ZH", "CY:Z", "CY:I",
                   "CY:J", "CY:K", "CY:O", "CY:P", "CY:R", "CY:S", "CY:T",
                   "CY:KH", "CY:CH">>

CyrillicLower == <<"cy:a", "cy:b", "cy:v", "cy:d", "cy:e", "cy:zh", "cy:z", "cy:i",
                   "cy:j", "cy:k", "cy:o", "cy:p", "cy:r", "cy:s", "cy:t",
                   "cy:kh", "cy:ch">>

\* case folding of the regular expression's i flag: the two cases of a
\* letter, Latin or Cyrillic, are the same character to the matcher
Fold(c) ==
    IF \E i \in 1..Len(UpperCase) : UpperCase[i] = c
    THEN LowerCase[CHOOSE i \in 1..Len(UpperCase) : UpperCase[i] = c]
    ELSE IF \E i \in 1..Len(CyrillicUpper) : CyrillicUpper[i] = c
    THEN CyrillicLower[CHOOSE i \in 1..Len(CyrillicUpper) : CyrillicUpper[i] = c]
    ELSE c

\* does pat occur in s at position i (exact characters)
OccursAt(s, pat, i) ==
    /\ i + Len(pat) - 1 <= Len(s)
    /\ \A j \in 1..Len(pat) : s[i + j - 1] = pat[j]

\* variant: the pattern without the i flag
MentionAt_CaseSensitive(s, i) == OccursAt(s, MentionToken, i)

\* does /@polza79bot/i match in s at position i
MentionAt(s, i) ==
    /\ i + Len(MentionToken) - 1 <= Len(s)
    /\ \A j \in 1..Len(MentionToken) : Fold(s[i + j - 1]) = MentionToken[j]

\* messageText.replace(/@polza79bot/gi, ''): one left-to-right pass over the
\* input, every match found in the input removed, the result not rescanned
RECURSIVE ReplaceMentionFrom(_, _)
ReplaceMentionFrom(s, i) ==
    IF i > Len(s) THEN <<>>
    ELSE IF MentionAt(s, i) THEN ReplaceMentionFrom(s, i + Len(MentionToken))
    ELSE <<s[i]>> \o ReplaceMentionFrom(s, i + 1)

ReplaceMention(s) == ReplaceMentionFrom(s, 1)

ExtractQuery(messageText, isGroup) ==
    IF isGroup THEN Trim(ReplaceMention(messageText)) ELSE Trim(messageText)

-----------------------------------------------------------------------------
(* Literal user-facing texts.                                              *)

DeniedText == "Etot bot dostupen tolko v avtorizovannom chate soobshchestva."

UsageTextGroup == "Pozhaluysta, ukazhite zapros. Naprimer: @polza79bot naydi mne iOS razrabotchika"

UsageTextDirect == "Pozhaluysta, ukazhite zapros. Naprimer: naydi mne iOS razrabotchika"

GenericFailureText == "Ne udalos obrabotat vash zapros. Pozhaluysta, poprobuyte pozzhe."

ServiceUnavailableText == "Servis vremenno nedostupen. Pozhaluysta, poprobuyte pozzhe."

NoAnswerText == "Ne udalos poluchit otvet ot AI."

NoDatabaseText == "Sovpadeniy ne naydeno. Baza dannykh ekspertov nedostupna."

-----------------------------------------------------------------------------
(* Spreadsheet snapshots and the KV cache entry.                           *)

\* age threshold of getExpertData, in milliseconds
TTL == 3600000

HeaderRow == <<"Name", "City">>

SheetA == [hasValues |-> TRUE, values |-> <<HeaderRow, <<"Ann", "Perm">>>>]

SheetB == [hasValues |-> TRUE,
           values |-> <<HeaderRow, <<"Bob", "Kazan">>, <<"Ann", "Perm">>>>]

SheetHeaderOnly == [hasValues |-> TRUE, values |-> <<HeaderRow>>]

NoSheet == [hasValues |-> FALSE, values |-> <<>>]

\* what sheets.spreadsheets.values.get can answer with
RemoteSheets == {SheetA, SheetB, SheetHeaderOnly}

\* a JavaScript number: an integer or NaN
Num(v) == [nan |-> FALSE, v |-> v]

NaN == [nan |-> TRUE, v |-> 0]

NumSub(a, b) == IF a.nan \/ b.nan THEN NaN ELSE Num(a.v - b.v)

\* a < b on numbers: false when either side is NaN
NumLess(a, b) == ~a.nan /\ ~b.nan /\ a.v < b.v

\* KV.get answers null when the key is absent, otherwise the stored string.
\* A stored string is one of: the empty string, text that is not JSON, or
\* the JSON text of an object with an optional timestamp and a data member.
KvNull == [kind |-> "null", hasTs |-> FALSE, ts |-> 0, data |-> NoSheet]

KvGarbage == [kind |-> "garbage", hasTs |-> FALSE, ts |-> 0, data |-> NoSheet]

KvEmpty == [kind |-> "empty", hasTs |-> FALSE, ts |-> 0, data |-> NoSheet]

\* the JSON text of an object with a data member and no timestamp
EntryWithoutTimestamp(data) ==
    [kind |-> "json", hasTs |-> FALSE, ts |-> 0, data |-> data]

\* JSON.stringify({timestamp, data})
JSONstringify(obj) ==
    [kind |-> "json", hasTs |-> TRUE, ts |-> obj.timestamp, data |-> obj.data]

\* JSON.parse: throws on text that is not JSON
JSONparse(s) ==
    IF s.kind = "json"
    THEN [threw |-> FALSE,
          value |-> [timestamp |-> IF s.hasTs THEN Num(s.ts) ELSE NaN,
                     data |-> s.data]]
    ELSE [threw |-> TRUE, value |-> [timestamp |-> NaN, data |-> NoSheet]]

\* if (cached): null and the empty string are falsy
Truthy(s) == s.kind \notin {"null", "empty"}

\* variant: the threshold taken in seconds
IsFresh_Seconds(parsedCache, clock) ==
    NumLess(NumSub(Num(clock), parsedCache.timestamp), Num(TTL \div 1000))

\* variant: age <= 3600000
IsFresh_Inclusive(parsedCache, clock) ==
    NumLess(NumSub(Num(clock), parsedCache.timestamp), Num(TTL + 1))

\* variant: an age below zero does not count as fresh
IsFresh_RejectsFuture(parsedCache, clock) ==
    /\ NumLess(NumSub(Num(clock), parsedCache.timestamp), Num(TTL))
    /\ ~NumLess(NumSub(Num(clock), parsedCache.timestamp), Num(0))

\* age < 3600000
IsFresh(parsedCache, clock) ==
    NumLess(NumSub(Num(clock), parsedCache.timestamp), Num(TTL))

-----------------------------------------------------------------------------
(* Matching orchestrator (findExpertsWithAI).                              *)

\* the model identifiers, in the order the nested try blocks use them
ModelChain == <<"gemini-2.0-flash-exp", "gemini-2.0-flash-001", "gemini-1.5-flash-001">>

MarkOverloaded == <<"o", "v", "e", "r", "l", "o", "a", "d", "e", "d">>

Mark503 == <<"5", "0", "3">>

MarkNotFound == <<"n", "o", "t", " ", "f", "o", "u", "n", "d">>

\* String.prototype.includes
StrIncludes(s, pat) == \E i \in 1..Len(s) : OccursAt(s, pat, i)

\* variant: a 429 (rate limit) message also counts as an overload error
IsOverloadError_With429(errorMessage) ==
    \/ StrIncludes(errorMessage, MarkOverloaded)
    \/ StrIncludes(errorMessage, Mark503)
    \/ StrIncludes(errorMessage, MarkNotFound)
    \/ StrIncludes(errorMessage, <<"4", "2", "9">>)

\* errorMessage.includes('overloaded') || errorMessage.includes('503')
\*   || errorMessage.includes('not found')
IsOverloadError(errorMessage) ==
    \/ StrIncludes(errorMessage, MarkOverloaded)
    \/ StrIncludes(errorMessage, Mark503)
    \/ StrIncludes(errorMessage, MarkNotFound)

ErrOverloaded == <<"T", "h", "e", " ", "m", "o", "d", "e", "l", " ", "i", "s", " ",
                   "o", "v", "e", "r", "l", "o", "a", "d", "e", "d", ".">>

Err503 == <<"g", "o", "t", " ", "s", "t", "a", "t", "u", "s", ":", " ", "5", "0", "3">>

ErrNotFound == <<"m", "o", "d", "e", "l", "s", "/", "x", " ", "i", "s", " ",
                 "n", "o", "t", " ", "f", "o", "u", "n", "d">>

Err429 == <<"4", "2", "9", " ", "q", "u", "o", "t", "a", " ",
            "e", "x", "c", "e", "e", "d", "e", "d">>

Err400 == <<"4", "0", "0", " ", "i", "n", "v", "a", "l", "i", "d", " ",
            "a", "r", "g", "u", "m", "e", "n", "t">>

\* messages of the errors ai.models.generateContent can throw
ErrorMessages == {ErrOverloaded, Err503, ErrNotFound, Err429, Err400}

\* response.text of a call that did not throw ("" stands for empty or undefined)
ResponseTexts == {"", "answer-1", "answer-2"}

\* variant: only a dataset without any row counts as missing
NoExpertData_EmptyOnly(experts) == ~experts.hasValues \/ Len(experts.values) < 1

\* !experts?.values || experts.values.length < 2
NoExpertData(experts) == ~experts.hasValues \/ Len(experts.values) < 2

PhraseShowAll == <<"s", "h", "o", "w", " ", "a", "l", "l">>

PhraseGiveMeEveryone == <<"g", "i", "v", "e", " ", "m", "e", " ",
                          "e", "v", "e", "r", "y", "o", "n", "e">>

PhraseListAll == <<"l", "i", "s", "t", " ", "a", "l", "l">>

PhrasePokazhiVse == <<"cy:p", "cy:o", "cy:k", "cy:a", "cy:zh", "cy:i", " ",
                      "cy:v", "cy:s", "cy:e">>

PhrasePokazhiVsekh == <<"cy:p", "cy:o", "cy:k", "cy:a", "cy:zh", "cy:i", " ",
                        "cy:v", "cy:s", "cy:e", "cy:kh">>

PhraseDajVsekh == <<"cy:d", "cy:a", "cy:j", " ", "cy:v", "cy:s", "cy:e", "cy:kh">>

PhraseSpisokVsekh == <<"cy:s", "cy:p", "cy:i", "cy:s", "cy:o", "cy:k", " ",
                       "cy:v", "cy:s", "cy:e", "cy:kh">>

\* the alternatives of showAllPattern, in the order of the pattern
ShowAllPhrases == <<PhraseShowAll, PhraseGiveMeEveryone, PhraseListAll,
                    PhrasePokazhiVse, PhrasePokazhiVsekh, PhraseDajVsekh,
                    PhraseSpisokVsekh>>

Digits == {"0", "1", "2", "3", "4", "5", "6", "7", "8", "9"}

\* the class \w of a pattern without the u flag: [A-Za-z0-9_]
IsWordChar(c) ==
    \/ \E i \in 1..Len(UpperCase) : c = UpperCase[i] \/ c = LowerCase[i]
    \/ c \in Digits
    \/ c = "_"

\* is the character of s at position i a word character (no character, and
\* so not a word character, outside the text)
WordAt(s, i) == i >= 1 /\ i <= Len(s) /\ IsWordChar(s[i])

\* \b between positions i - 1 and i: a word character on exactly one side
WordBoundary(s, i) == WordAt(s, i - 1) # WordAt(s, i)

\* does the alternative phrase match in s at position i, under the i flag
PhraseAt(s, phrase, i) ==
    /\ i + Len(phrase) - 1 <= Len(s)
    /\ \A j \in 1..Len(phrase) : Fold(s[i + j - 1]) = Fold(phrase[j])

\* showAllPattern.test(query): some alternative matches at some position
\* with a word boundary on both of its sides
showAllPatternTest(query) ==
    \E i \in 1..Len(query), k \in 1..Len(ShowAllPhrases) :
        /\ WordBoundary(query, i)
        /\ PhraseAt(query, ShowAllPhrases[k], i)
        /\ WordBoundary(query, i + Len(ShowAllPhrases[k]))

\* variant: the two limits swapped
MaxResultsFor_Swapped(requestShowAll) == IF requestShowAll THEN 5 ELSE 20

\* requestShowAll ? 20 : 5
MaxResultsFor(requestShowAll) == IF requestShowAll THEN 20 ELSE 5

\* variant: the header row goes into the preamble only, the data rows follow
createExpertMatchingPrompt_DataRowsOnly(query, spreadsheetData) ==
    LET requestShowAll == showAllPatternTest(query)
    IN  [query |-> query, data |-> Tail(spreadsheetData),
         maxResults |-> MaxResultsFor(requestShowAll),
         showAllRemark |-> requestShowAll]

\* the parts of the prompt that depend on the call's arguments: the result
\* limit of rule 6 with its remark, the user's query and the data preview
\* (JSON.stringify of the whole spreadsheetData, header row first)
createExpertMatchingPrompt(query, spreadsheetData) ==
    LET requestShowAll == showAllPatternTest(query)
    IN  [query |-> query, data |-> spreadsheetData,
         maxResults |-> MaxResultsFor(requestShowAll),
         showAllRemark |-> requestShowAll]

\* variant: the text is returned as it is
TextOrDefault_Raw(text) == text

\* response.text || <fixed text>
TextOrDefault(text) == IF text # "" THEN text ELSE NoAnswerText

-----------------------------------------------------------------------------
(* State.                                                                  *)

NoPrompt == [query |-> <<>>, data |-> <<>>, maxResults |-> 0, showAllRemark |-> FALSE]

\* One run of the message:text handler, before any update has arrived.
\* cached .. putFailed are the locals of getExpertData and prompt .. contents
\* those of findExpertsWithAI: they exist from the call's entry until the
\* caller has moved on to its next awaited call; contents lists what was
\* passed as `contents' to each generateContent call made so far.
\* escaped tells that an error left the handler, on which grammy calls the
\* function given to bot.catch.
\* earlier lists, where it is kept, how the matching call of each earlier
\* run went: the number of generateContent calls and the way it returned.  outbox and the counters
\* record what the run has done so far; aiResult records how
\* findExpertsWithAI returned in this run ("noData", "answer" or
\* "unavailable") and answerText the response.text of the attempt that
\* answered.
IdleHandler ==
    [pc |-> "idle",
     chatType |-> "private", chatId |-> 0, userId |-> 0, messageId |-> 0,
     messageText |-> <<>>,
     isGroup |-> FALSE, authorized |-> FALSE, query |-> <<>>,
     cacheRead |-> FALSE, cached |-> KvNull, readAt |-> 0, cachePath |-> "none",
     fetchFailed |-> FALSE, freshData |-> NoSheet, putValue |-> KvNull,
     putFailed |-> FALSE,
     expertData |-> NoSheet, thrown |-> "none",
     aiEntered |-> FALSE, listFailed |-> FALSE, prompt |-> NoPrompt,
     attempts |-> 0, models |-> <<>>, lastError |-> <<>>, succeeded |-> FALSE, rawText |-> "",
     contents |-> <<>>,
     earlier |-> <<>>,
     escaped |-> FALSE,
     responseMessage |-> "",
     aiResult |-> "none", answerText |-> "",
     outbox |-> <<>>,
     kvGets |-> 0, kvPuts |-> 0, fetches |-> 0, listCalls |-> 0, genCalls |-> 0]

\* the body of the error response of the /data and /experts routes
\* (the text begins with a warning-sign emoji)
UnableToAccessText ==
    "[warning sign] Unable to access the expert database. Please try again later."

\* The body of a Response: JSON.stringify(data, null, 2) of a dataset, or
\* JSON.stringify({ error: <text> })
NoBody == [type |-> "none", data |-> NoSheet, error |-> "", text |-> ""]

DatasetBody(data) == [type |-> "dataset", data |-> data, error |-> "", text |-> ""]

ErrorBody(text) == [type |-> "error", data |-> NoSheet, error |-> text, text |-> ""]

\* the body of a Response made from a string
TextBody(text) == [type |-> "text", data |-> NoSheet, error |-> "", text |-> text]

\* One call of getExpertData made on its own, as the /data route makes it:
\* its locals, the instant at which the data source read the sheet for it
\* (servedAt) and the instant at which its fetch completed (fetchedAt);
\* readAt is the instant at which its KV.get settled, where the age of the
\* entry is computed.
\* path, status and body are the request's path and the Response returned
\* for it; authorized tells whether isAuthorized was evaluated to true for
\* the request, which the route's code does nowhere.
IdleCall ==
    [pc |-> "idle", cached |-> KvNull, readAt |-> 0, cachePath |-> "none",
     servedData |-> NoSheet, servedAt |-> 0,
     freshData |-> NoSheet, fetchedAt |-> 0, putValue |-> KvNull,
     putFailed |-> FALSE, result |-> NoSheet, thrown |-> "none",
     fetches |-> 0, kvPuts |-> 0, sourceServedAt |-> 0,
     path |-> "", authorized |-> FALSE, kvGets |-> 0,
     status |-> 0, body |-> NoBody,
     method |-> "", botCalls |-> 0]

\* number of getExpertData calls that overlap
NumCallers == 2

Callers == 1..NumCallers

\* no call of getExpertData outside the message handler
NoCalls == [c \in Callers |-> IdleCall]

GroupsA == <<"-", "1", "0", "0", ",", " ", "8">>

UsersA == <<" ", "7", ",", "-", "2", "0", "0">>

\* the values of ALLOWED_GROUP_CHAT_IDS and ALLOWED_USER_IDS considered
GroupLists == {GroupsA, <<>>}

UserLists == {UsersA}

ChatTypes == {"private", "group", "supergroup"}

ChatIds == {-100, -200}

UserIds == {7, 8}

TextMentionOnly == <<"@", "P", "o", "l", "z", "a", "7", "9", "B", "o", "t", " ", " ", " ">>

TextBlank == <<" ", " ">>

TextIos == <<"i", "o", "s", " ", "@", "p", "o", "l", "z", "a", "7", "9", "b", "o", "t">>

MessageTexts == {TextMentionOnly, TextBlank, TextIos}

\* a cache entry written when the clock read ts
CacheEntry(ts, data) == JSONstringify([timestamp |-> ts, data |-> data])

\* what the KV store holds under "experts_data" when the worker starts; the
\* clock starts at 0, so an entry of age a carries timestamp -a
InitialCache ==
    {KvNull, KvGarbage,
     CacheEntry(0 - 4000000, SheetA),
     CacheEntry(0 - TTL, SheetA),
     CacheEntry(0 - (TTL - 1), SheetA)}

TickSteps == {1, TTL}

Init ==
    /\ env \in [ALLOWED_GROUP_CHAT_IDS : GroupLists,
                ALLOWED_USER_IDS : UserLists,
                credentialsOk : BOOLEAN]
    /\ kv \in InitialCache
    /\ now = 0
    /\ ticks = 0
    /\ served = 0
    /\ h = IdleHandler
    /\ calls = NoCalls
    /\ landed = <<>>

-----------------------------------------------------------------------------
(* The message:text handler, one action per awaited call.  Each action is  *)
(* the completion of the call named by h.pc together with the synchronous  *)
(* code that follows it up to the next awaited call.                       *)

\* the locals of getExpertData go away once the caller has moved on
PopCacheFrame(hh) ==
    [hh EXCEPT !.cacheRead = FALSE, !.cached = KvNull, !.readAt = 0,
               !.cachePath = "none", !.fetchFailed = FALSE,
               !.freshData = NoSheet, !.putValue = KvNull, !.putFailed = FALSE]

\* the locals of findExpertsWithAI go away once the caller has moved on
PopAiFrame(hh) ==
    [hh EXCEPT !.aiEntered = FALSE, !.prompt = NoPrompt, !.attempts = 0,
               !.models = <<>>, !.lastError = <<>>, !.succeeded = FALSE,
               !.rawText = "", !.contents = <<>>]

\* the error caught around ai.models.list() is local to that catch block
PopListFrame(hh) == [hh EXCEPT !.listFailed = FALSE]

\* an outbound ctx.reply and whether the platform accepted it
Sent(text, replyTo, parseMode, ok) ==
    [text |-> text, replyTo |-> replyTo, parseMode |-> parseMode, ok |-> ok]

\* variant: the outer catch logs and throws the error on
OuterCatch_Rethrows(hh) == [hh EXCEPT !.escaped = TRUE, !.pc = "done"]

\* the outer catch of the handler: console.error, nothing thrown
OuterCatch(hh) == [hh EXCEPT !.pc = "done"]

\* after an awaited ctx.reply that is the last statement reached in the try
\* block or in the inner catch: the handler returns, or the rejection is
\* caught by the outer catch
AfterLastReply(hh, ok) == IF ok THEN [hh EXCEPT !.pc = "done"] ELSE OuterCatch(hh)

\* entry of findExpertsWithAI up to its first awaited call
EnterFindExperts(hh, experts) ==
    IF NoExpertData(experts)
    THEN [hh EXCEPT !.expertData = experts, !.aiEntered = TRUE,
                    !.responseMessage = NoDatabaseText,
                    !.aiResult = "noData", !.pc = "replyResult"]
    ELSE [hh EXCEPT !.expertData = experts, !.aiEntered = TRUE,
                    !.pc = "listModels"]

\* variant: the denial is decided but the handler does not return on it
StartHandler_NoReturnOnDenied(chatType, chatId, userId, messageText, messageId) ==
    LET isGroup == IsGroupChat(chatType)
        ok == isAuthorized(chatId, userId, isGroup)
        query == ExtractQuery(messageText, isGroup)
        ctx == [IdleHandler EXCEPT !.chatType = chatType, !.chatId = chatId,
                                   !.userId = userId, !.messageId = messageId,
                                   !.messageText = messageText,
                                   !.isGroup = isGroup, !.authorized = ok]
    IN  IF query = <<>> THEN [ctx EXCEPT !.query = query, !.pc = "replyUsage"]
        ELSE [ctx EXCEPT !.query = query, !.pc = "kvGet"]

\* variant: the empty-query validation is missing
StartHandler_NoEmptyCheck(chatType, chatId, userId, messageText, messageId) ==
    LET isGroup == IsGroupChat(chatType)
        ok == isAuthorized(chatId, userId, isGroup)
        query == ExtractQuery(messageText, isGroup)
        ctx == [IdleHandler EXCEPT !.chatType = chatType, !.chatId = chatId,
                                   !.userId = userId, !.messageId = messageId,
                                   !.messageText = messageText,
                                   !.isGroup = isGroup, !.authorized = ok]
    IN  IF ~ok THEN [ctx EXCEPT !.pc = "replyDenied"]
        ELSE [ctx EXCEPT !.query = query, !.pc = "kvGet"]

\* the code from the update's arrival to the first awaited call
StartHandler(chatType, chatId, userId, messageText, messageId) ==
    LET isGroup == IsGroupChat(chatType)
        ok == isAuthorized(chatId, userId, isGroup)
        query == ExtractQuery(messageText, isGroup)
        ctx == [IdleHandler EXCEPT !.chatType = chatType, !.chatId = chatId,
                                   !.userId = userId, !.messageId = messageId,
                                   !.messageText = messageText,
                                   !.isGroup = isGroup, !.authorized = ok]
    IN  IF ~ok THEN [ctx EXCEPT !.pc = "replyDenied"]
        ELSE IF query = <<>> THEN [ctx EXCEPT !.query = query, !.pc = "replyUsage"]
        ELSE [ctx EXCEPT !.query = query, !.pc = "kvGet"]

ReceiveUpdate ==
    /\ h.pc \in {"idle", "done"}
    /\ served < MaxUpdates
    /\ served' = served + 1
    /\ \E chatType \in ChatTypes, chatId \in ChatIds, userId \in UserIds,
          messageText \in MessageTexts :
            h' = StartHandler(chatType, chatId, userId, messageText, served + 1)
    /\ UNCHANGED <<calls, landed, env, kv, now, ticks>>

\* await ctx.reply(<denied text>); a rejected send is logged by the outer catch
ReplyDenied ==
    /\ h.pc = "replyDenied"
    /\ \E ok \in BOOLEAN :
         h' = AfterLastReply(
                 [h EXCEPT !.outbox = Append(@, Sent(DeniedText, 0, "none", ok))],
                 ok)
    /\ UNCHANGED <<calls, landed, env, kv, now, ticks, served>>

\* variant: the two usage texts swapped
ReplyUsage_TextsSwapped ==
    /\ h.pc = "replyUsage"
    /\ \E ok \in BOOLEAN :
         h' = [h EXCEPT !.outbox = Append(@,
                           Sent(IF h.isGroup THEN UsageTextDirect ELSE UsageTextGroup,
                                h.messageId, "none", ok)),
                        !.pc = "done"]
    /\ UNCHANGED <<calls, landed, env, kv, now, ticks, served>>

\* await ctx.reply(exampleText, { reply_to_message_id })
ReplyUsage ==
    /\ h.pc = "replyUsage"
    /\ \E ok \in BOOLEAN :
         h' = AfterLastReply(
                 [h EXCEPT !.outbox = Append(@,
                           Sent(IF h.isGroup THEN UsageTextGroup ELSE UsageTextDirect,
                                h.messageId, "none", ok))],
                 ok)
    /\ UNCHANGED <<calls, landed, env, kv, now, ticks, served>>

\* getExpertData from its entry to the first awaited call after KV.get:
\* the cache check, and on a miss the synchronous head of
\* fetchFromGoogleSheets, whose JSON.parse of the service-account key throws
\* before any request is sent when the key is not JSON
AfterCacheRead(hh, cached, clock) ==
    LET seen == [hh EXCEPT !.cacheRead = TRUE, !.cached = cached, !.readAt = clock]
        parsed == JSONparse(cached)
        toFetch(path) ==
            IF env.credentialsOk
            THEN [seen EXCEPT !.cachePath = path, !.pc = "fetch"]
            ELSE [seen EXCEPT !.cachePath = path,
                              !.thrown = "SheetsUnavailableError",
                              !.pc = "replyFailure"]
    IN  IF ~Truthy(cached) THEN toFetch("miss")
        ELSE IF parsed.threw
             THEN [seen EXCEPT !.thrown = "SyntaxError", !.pc = "replyFailure"]
        ELSE IF IsFresh(parsed.value, clock)
             THEN EnterFindExperts([seen EXCEPT !.cachePath = "hit"], parsed.value.data)
        ELSE toFetch("expired")

\* await env.EXPERTS_KV.get("experts_data")
KvGet ==
    /\ h.pc = "kvGet"
    /\ \/ h' = AfterCacheRead([h EXCEPT !.kvGets = @ + 1], kv, now)
       \/ h' = [h EXCEPT !.kvGets = @ + 1, !.thrown = "KVError",
                         !.pc = "replyFailure"]
    /\ UNCHANGED <<calls, landed, env, kv, now, ticks, served>>

\* variant: the entry is stamped with its expiry time
FreshEntry_StampedAhead(freshData, clock) ==
    JSONstringify([timestamp |-> clock + TTL, data |-> freshData])

\* the value handed to KV.put: built right after the fetch returned
FreshEntry(freshData, clock) ==
    JSONstringify([timestamp |-> clock, data |-> freshData])

\* variant: a failed fetch falls back to the entry that was read, if any
AfterFetchFailure_ServeStale(hh) ==
    IF hh.cached.kind = "json"
    THEN EnterFindExperts(hh, hh.cached.data)
    ELSE [hh EXCEPT !.thrown = "SheetsUnavailableError", !.pc = "replyFailure"]

\* variant: a failed fetch is logged and the call carries on without data
AfterFetchFailure_CarriesOn(hh) ==
    EnterFindExperts(hh, NoSheet)

\* the catch block of fetchFromGoogleSheets: log, throw SheetsUnavailableError,
\* which getExpertData lets through to the handler's inner catch
AfterFetchFailure(hh) ==
    [hh EXCEPT !.thrown = "SheetsUnavailableError", !.pc = "replyFailure"]

\* await sheets.spreadsheets.values.get(...)
Fetch ==
    /\ h.pc = "fetch"
    /\ \/ \E data \in RemoteSheets :
            h' = [h EXCEPT !.fetches = @ + 1, !.freshData = data,
                           !.putValue = FreshEntry(data, now), !.pc = "kvPut"]
       \/ h' = AfterFetchFailure([h EXCEPT !.fetches = @ + 1, !.fetchFailed = TRUE])
    /\ UNCHANGED <<calls, landed, env, kv, now, ticks, served>>

\* variant: KV.put is not wrapped in try/catch
AfterPut_Throws(hh, ok) ==
    IF ok THEN EnterFindExperts(hh, hh.freshData)
    ELSE [hh EXCEPT !.putFailed = TRUE, !.thrown = "KVError", !.pc = "replyFailure"]

\* getExpertData after KV.put settled: a rejection is logged and swallowed,
\* and freshData is returned either way
AfterPut(hh, ok) ==
    IF ok THEN EnterFindExperts(hh, hh.freshData)
    ELSE EnterFindExperts([hh EXCEPT !.putFailed = TRUE], hh.freshData)

\* await env.EXPERTS_KV.put("experts_data", ...)
KvPut ==
    /\ h.pc = "kvPut"
    /\ \/ /\ kv' = h.putValue
          /\ h' = AfterPut([h EXCEPT !.kvPuts = @ + 1], TRUE)
       \/ /\ kv' = kv
          /\ h' = AfterPut([h EXCEPT !.kvPuts = @ + 1], FALSE)
    /\ UNCHANGED <<calls, landed, env, now, ticks, served>>

\* variant: the chain resumes after the models that an earlier run found
\* overloaded
ListModels_ResumesChain ==
    /\ h.pc = "listModels"
    /\ \E failed \in BOOLEAN :
         h' = [PopCacheFrame(h) EXCEPT !.listCalls = @ + 1,
                      !.listFailed = failed,
                      !.prompt = createExpertMatchingPrompt(h.query, h.expertData.values),
                      !.pc = IF h.earlier # <<>> /\ h.earlier[Len(h.earlier)].genCalls > 1
                             THEN "gen2" ELSE "gen1"]
    /\ UNCHANGED <<calls, landed, env, kv, now, ticks, served>>

\* variant: a failed listing is not caught on the spot and ends the call in
\* the outer catch
ListModels_FailureAborts ==
    /\ h.pc = "listModels"
    /\ \E failed \in BOOLEAN :
         h' = IF failed
              THEN [PopCacheFrame(h) EXCEPT !.listCalls = @ + 1,
                      !.aiResult = "unavailable",
                      !.responseMessage = ServiceUnavailableText,
                      !.pc = "replyResult"]
              ELSE [PopCacheFrame(h) EXCEPT !.listCalls = @ + 1,
                      !.listFailed = FALSE,
                      !.prompt = createExpertMatchingPrompt(h.query, h.expertData.values),
                      !.pc = "gen1"]
    /\ UNCHANGED <<calls, landed, env, kv, now, ticks, served>>

\* await ai.models.list() in its own try: the list is logged, a failure is
\* caught and logged (listFailed), and the prompt is built either way
ListModels ==
    /\ h.pc = "listModels"
    /\ \E failed \in BOOLEAN :
         h' = [PopCacheFrame(h) EXCEPT !.listCalls = @ + 1,
                      !.listFailed = failed,
                      !.prompt = createExpertMatchingPrompt(h.query, h.expertData.values),
                      !.pc = "gen1"]
    /\ UNCHANGED <<calls, landed, env, kv, now, ticks, served>>

\* variant: after an empty answer the chain goes on to the next model
AttemptSucceeded_EmptyFallsBack(hh, k, text) ==
    IF text = "" /\ k < Len(ModelChain)
    THEN [hh EXCEPT !.attempts = @ + 1, !.models = Append(@, ModelChain[k]),
                    !.contents = Append(@, hh.prompt),
                    !.genCalls = @ + 1,
                    !.succeeded = TRUE, !.rawText = text,
                    !.aiResult = "answer", !.answerText = text,
                    !.responseMessage = TextOrDefault(text),
                    !.pc = <<"gen2", "gen3">>[k]]
    ELSE [hh EXCEPT !.attempts = @ + 1, !.models = Append(@, ModelChain[k]),
                    !.contents = Append(@, hh.prompt),
                    !.genCalls = @ + 1,
                    !.succeeded = TRUE, !.rawText = text,
                    !.aiResult = "answer", !.answerText = text,
                    !.responseMessage = TextOrDefault(text), !.pc = "replyResult"]

\* a generateContent call on ModelChain[k] that returned
AttemptSucceeded(hh, k, text) ==
    [hh EXCEPT !.attempts = @ + 1, !.models = Append(@, ModelChain[k]),
               !.contents = Append(@, hh.prompt),
               !.genCalls = @ + 1,
               !.succeeded = TRUE, !.rawText = text,
               !.aiResult = "answer", !.answerText = text,
               !.responseMessage = TextOrDefault(text), !.pc = "replyResult"]

\* variant: no outer catch, the error reaches the handler
GaveUp_Rethrow(hh, k, errorMessage) ==
    [hh EXCEPT !.attempts = @ + 1, !.models = Append(@, ModelChain[k]),
               !.contents = Append(@, hh.prompt),
               !.genCalls = @ + 1, !.lastError = errorMessage,
               !.thrown = "GeminiError", !.pc = "replyFailure"]

\* the outer catch of findExpertsWithAI
GaveUp(hh, k, errorMessage) ==
    [hh EXCEPT !.attempts = @ + 1, !.models = Append(@, ModelChain[k]),
               !.contents = Append(@, hh.prompt),
               !.genCalls = @ + 1, !.lastError = errorMessage,
               !.aiResult = "unavailable",
               !.responseMessage = ServiceUnavailableText, !.pc = "replyResult"]

\* variant: every error falls back to the next model
AttemptFailed_AlwaysFallBack(hh, k, errorMessage, nextPc) ==
    [hh EXCEPT !.attempts = @ + 1, !.models = Append(@, ModelChain[k]),
               !.contents = Append(@, hh.prompt),
               !.genCalls = @ + 1, !.lastError = errorMessage, !.pc = nextPc]

\* variant: an overload error retries the same model
AttemptFailed_RetrySame(hh, k, errorMessage, nextPc) ==
    IF IsOverloadError(errorMessage)
    THEN [hh EXCEPT !.attempts = @ + 1, !.models = Append(@, ModelChain[k]),
               !.contents = Append(@, hh.prompt),
                    !.genCalls = @ + 1, !.lastError = errorMessage]
    ELSE GaveUp(hh, k, errorMessage)

\* the catch block of attempt k (k = 1, 2): fall back or rethrow
AttemptFailed(hh, k, errorMessage, nextPc) ==
    IF IsOverloadError(errorMessage)
    THEN [hh EXCEPT !.attempts = @ + 1, !.models = Append(@, ModelChain[k]),
               !.contents = Append(@, hh.prompt),
                    !.genCalls = @ + 1, !.lastError = errorMessage, !.pc = nextPc]
    ELSE GaveUp(hh, k, errorMessage)

\* await ai.models.generateContent({ model: 'gemini-2.0-flash-exp', ... })
GeneratePrimary ==
    /\ h.pc = "gen1"
    /\ \/ \E text \in ResponseTexts :
             h' = AttemptSucceeded(PopListFrame(h), 1, text)
       \/ \E e \in ErrorMessages :
             h' = AttemptFailed(PopListFrame(h), 1, e, "gen2")
    /\ UNCHANGED <<calls, landed, env, kv, now, ticks, served>>

\* await ai.models.generateContent({ model: 'gemini-2.0-flash-001', ... })
GenerateSecondary ==
    /\ h.pc = "gen2"
    /\ \/ \E text \in ResponseTexts : h' = AttemptSucceeded(h, 2, text)
       \/ \E e \in ErrorMessages : h' = AttemptFailed(h, 2, e, "gen3")
    /\ UNCHANGED <<calls, landed, env, kv, now, ticks, served>>

\* await ai.models.generateContent({ model: 'gemini-1.5-flash-001', ... });
\* this call has no catch of its own
GenerateTertiary ==
    /\ h.pc = "gen3"
    /\ \/ \E text \in ResponseTexts : h' = AttemptSucceeded(h, 3, text)
       \/ \E e \in ErrorMessages : h' = GaveUp(h, 3, e)
    /\ UNCHANGED <<calls, landed, env, kv, now, ticks, served>>

\* await ctx.reply(responseMessage, { reply_to_message_id, parse_mode })
ReplyResult ==
    /\ h.pc = "replyResult"
    /\ \/ h' = [PopAiFrame(PopCacheFrame(h)) EXCEPT !.outbox = Append(@,
                    Sent(h.responseMessage, h.messageId, "MarkdownV2", TRUE)),
                         !.pc = "done"]
       \/ h' = [PopAiFrame(PopCacheFrame(h)) EXCEPT !.outbox = Append(@,
                    Sent(h.responseMessage, h.messageId, "MarkdownV2", FALSE)),
                         !.thrown = "ReplyError", !.pc = "replyFailure"]
    /\ UNCHANGED <<calls, landed, env, kv, now, ticks, served>>

\* variant: the failure text carries the name of the error caught
ReplyFailure_SendsDetail ==
    /\ h.pc = "replyFailure"
    /\ \E ok \in BOOLEAN :
         h' = [PopCacheFrame(h) EXCEPT !.outbox = Append(@,
                    Sent(h.thrown, h.messageId, "none", ok)),
                        !.pc = "done"]
    /\ UNCHANGED <<calls, landed, env, kv, now, ticks, served>>

\* variant: the inner catch only logs
ReplyFailure_Silent ==
    /\ h.pc = "replyFailure"
    /\ h' = [PopCacheFrame(h) EXCEPT !.pc = "done"]
    /\ UNCHANGED <<calls, landed, env, kv, now, ticks, served>>

\* variant: the failure text is sent with the parse mode of the response
ReplyFailure_RichText ==
    /\ h.pc = "replyFailure"
    /\ \E ok \in BOOLEAN :
         h' = AfterLastReply(
                 [PopCacheFrame(h) EXCEPT !.outbox = Append(@,
                    Sent(GenericFailureText, h.messageId, "MarkdownV2", ok))],
                 ok)
    /\ UNCHANGED <<calls, landed, env, kv, now, ticks, served>>

\* the inner catch: await ctx.reply(<generic failure text>, { reply_to_message_id })
ReplyFailure ==
    /\ h.pc = "replyFailure"
    /\ \E ok \in BOOLEAN :
         h' = AfterLastReply(
                 [PopCacheFrame(h) EXCEPT !.outbox = Append(@,
                    Sent(GenericFailureText, h.messageId, "none", ok))],
                 ok)
    /\ UNCHANGED <<calls, landed, env, kv, now, ticks, served>>

\* time passes (Date.now() grows)
Tick ==
    /\ ticks < MaxTicks
    /\ ticks' = ticks + 1
    /\ \E d \in TickSteps : now' = now + d
    /\ UNCHANGED <<calls, landed, env, kv, served, h>>

Next ==
    \/ ReceiveUpdate
    \/ ReplyDenied
    \/ ReplyUsage
    \/ KvGet
    \/ Fetch
    \/ KvPut
    \/ ListModels
    \/ GeneratePrimary
    \/ GenerateSecondary
    \/ GenerateTertiary
    \/ ReplyResult
    \/ ReplyFailure
    \/ Tick

Spec == Init /\ [][Next]_vars

-----------------------------------------------------------------------------
(* The handler from the arrival of an update to the matching request, over *)
(* a wide range of message texts: the query extraction and the prompt's    *)
(* result limit are functions of the text alone.  The cache holds a fresh  *)
(* entry and the chat and the user are whitelisted.                        *)

\* number of pieces a message text is put together from
MaxPieces == 3

PieceMentionMixed == <<"@", "P", "o", "L", "z", "A", "7", "9", "B", "O", "T">>

PieceMentionHead == <<"@", "p", "o", "l", "z", "a">>

PieceMentionTail == <<"7", "9", "b", "o", "t">>

PieceIos == <<"i", "o", "s">>

PieceShowAllMixed == <<"S", "h", "o", "w", " ", "A", "L", "L">>

QueryPieces ==
    {MentionToken, PieceMentionMixed, PieceMentionHead, PieceMentionTail,
     <<" ">>, <<"x">>, PieceIos, PhraseShowAll, PieceShowAllMixed,
     PhrasePokazhiVsekh}

RECURSIVE Flatten(_)
Flatten(pieces) ==
    IF pieces = <<>> THEN <<>> ELSE Head(pieces) \o Flatten(Tail(pieces))

\* Scenario D
TextShowAllIos == <<"s", "h", "o", "w", " ", "a", "l", "l", " ", "i", "o", "s", " ",
                    "d", "e", "v", "e", "l", "o", "p", "e", "r", "s">>

\* the README's example of a query for all matches
TextPokazhiVsekhBackend ==
    PhrasePokazhiVsekh \o <<" ", "b", "a", "c", "k", "e", "n", "d", " ">>
      \o <<"cy:r", "cy:a", "cy:z", "cy:r", "cy:a", "cy:b", "cy:o", "cy:t",
            "cy:ch", "cy:i", "cy:k", "cy:o", "cy:v">>

\* ctx.message.text of the updates considered
QueryTexts ==
    {Flatten(pieces) : pieces \in UNION {[1..n -> QueryPieces] : n \in 0..MaxPieces}}
      \cup {TextShowAllIos, TextPokazhiVsekhBackend}

QueryInit ==
    /\ env = [ALLOWED_GROUP_CHAT_IDS |-> GroupsA, ALLOWED_USER_IDS |-> UsersA,
              credentialsOk |-> TRUE]
    /\ kv = CacheEntry(0 - 1, SheetA)
    /\ now = 0
    /\ ticks = 0
    /\ served = 0
    /\ h = IdleHandler
    /\ calls = NoCalls
    /\ landed = <<>>

\* an update from the whitelisted user 7 in the whitelisted chat -100
QueryReceive ==
    /\ h.pc = "idle"
    /\ served' = served + 1
    /\ \E chatType \in ChatTypes, messageText \in QueryTexts :
            h' = StartHandler(chatType, -100, 7, messageText, served + 1)
    /\ UNCHANGED <<calls, landed, env, kv, now, ticks>>

QueryNext ==
    \/ QueryReceive
    \/ ReplyUsage
    \/ KvGet
    \/ ListModels

QuerySpec == QueryInit /\ [][QueryNext]_vars

-----------------------------------------------------------------------------
(* Overlapping calls of getExpertData, as concurrent requests of the /data *)
(* route make them: each call is suspended at KV.get, at the request to    *)
(* the Sheets API and at KV.put, and the calls share the one cache entry.  *)
(* The request to the data source is in flight for some time: the source   *)
(* reads the sheet at one instant and the call resumes at a later one.     *)

\* number of times the clock advances while the calls run
MaxCacheTicks == 2

CacheTickSteps == {1, TTL - 1}

\* what the sheet holds when the data source reads it for a call
CacheSheets == {SheetA, SheetB}

CacheInit ==
    /\ env \in [ALLOWED_GROUP_CHAT_IDS : {GroupsA}, ALLOWED_USER_IDS : {UsersA},
                credentialsOk : BOOLEAN]
    /\ kv \in {KvNull, CacheEntry(0 - TTL, SheetA)}
    /\ now = 0
    /\ ticks = 0
    /\ served = 0
    /\ h = IdleHandler
    /\ calls = NoCalls
    /\ landed = <<>>

\* the instant at which the data source read the sheet for the entry in
\* the store; an entry from before the first call counts from its timestamp
EntryServedAt ==
    IF landed = <<>> THEN kv.ts ELSE calls[landed[Len(landed)]].servedAt

\* const data = await getExpertData(env): the call begins with KV.get (the
\* calls are numbered in the order in which they begin)
CallStart(c) ==
    /\ calls[c].pc = "idle"
    /\ \A d \in Callers : d < c => calls[d].pc # "idle"
    /\ calls' = [calls EXCEPT ![c].pc = "kvGet"]
    /\ UNCHANGED <<landed, env, kv, now, ticks, served, h>>

\* variant: the entry in the store is never used
CallAfterCacheRead_NoCache(call, cached, clock) ==
    LET seen == [call EXCEPT !.cached = cached, !.readAt = clock]
    IN  IF env.credentialsOk
        THEN [seen EXCEPT !.cachePath = "miss", !.pc = "fetch"]
        ELSE [seen EXCEPT !.cachePath = "miss",
                          !.thrown = "SheetsUnavailableError", !.pc = "threw"]

\* variant: an entry that cannot be parsed is treated as a missing entry
CallAfterCacheRead_RepairsEntry(call, cached, clock) ==
    LET seen == [call EXCEPT !.cached = cached, !.readAt = clock]
        parsed == JSONparse(cached)
        toFetch(path) ==
            IF env.credentialsOk
            THEN [seen EXCEPT !.cachePath = path, !.pc = "fetch"]
            ELSE [seen EXCEPT !.cachePath = path,
                              !.thrown = "SheetsUnavailableError", !.pc = "threw"]
    IN  IF ~Truthy(cached) \/ parsed.threw THEN toFetch("miss")
        ELSE IF IsFresh(parsed.value, clock)
             THEN [seen EXCEPT !.cachePath = "hit", !.result = parsed.value.data,
                               !.pc = "returned"]
        ELSE toFetch("expired")

\* getExpertData from the answer of KV.get to its next awaited call
CallAfterCacheRead(call, cached, clock) ==
    LET seen == [call EXCEPT !.cached = cached, !.readAt = clock]
        parsed == JSONparse(cached)
        toFetch(path) ==
            IF env.credentialsOk
            THEN [seen EXCEPT !.cachePath = path, !.pc = "fetch"]
            ELSE [seen EXCEPT !.cachePath = path,
                              !.thrown = "SheetsUnavailableError", !.pc = "threw"]
    IN  IF ~Truthy(cached) THEN toFetch("miss")
        ELSE IF parsed.threw
             THEN [seen EXCEPT !.thrown = "SyntaxError", !.pc = "threw"]
        ELSE IF IsFresh(parsed.value, clock)
             THEN [seen EXCEPT !.cachePath = "hit", !.result = parsed.value.data,
                               !.pc = "returned"]
        ELSE toFetch("expired")

\* await env.EXPERTS_KV.get("experts_data")
CallKvGet(c) ==
    /\ calls[c].pc = "kvGet"
    /\ \/ calls' = [calls EXCEPT ![c] =
                       CallAfterCacheRead([@ EXCEPT !.sourceServedAt = EntryServedAt,
                                                    !.kvGets = @ + 1],
                                          kv, now)]
       \/ calls' = [calls EXCEPT ![c].kvGets = @ + 1, ![c].readAt = now,
                                  ![c].thrown = "KVError", ![c].pc = "threw"]
    /\ UNCHANGED <<landed, env, kv, now, ticks, served, h>>

\* sheets.spreadsheets.values.get(...): the data source reads the sheet and
\* answers, or the request fails and SheetsUnavailableError is thrown
CallFetchServe(c) ==
    /\ calls[c].pc = "fetch"
    /\ \/ \E data \in CacheSheets :
            calls' = [calls EXCEPT ![c].fetches = @ + 1, ![c].servedData = data,
                                   ![c].servedAt = now, ![c].pc = "fetchWait"]
       \/ calls' = [calls EXCEPT ![c].fetches = @ + 1,
                                  ![c].thrown = "SheetsUnavailableError",
                                  ![c].pc = "threw"]
    /\ UNCHANGED <<landed, env, kv, now, ticks, served, h>>

\* the answer reaches the worker: freshData is bound and the value for
\* KV.put is built with the timestamp read at this instant
CallFetchReturn(c) ==
    /\ calls[c].pc = "fetchWait"
    /\ calls' = [calls EXCEPT ![c].freshData = calls[c].servedData,
                               ![c].fetchedAt = now,
                               ![c].putValue = FreshEntry(calls[c].servedData, now),
                               ![c].pc = "kvPut"]
    /\ UNCHANGED <<landed, env, kv, now, ticks, served, h>>

\* variant: the write replaces the data of the entry in the store and
\* leaves its timestamp
CallKvPut_PatchesData(c) ==
    /\ calls[c].pc = "kvPut"
    /\ kv' = IF kv.kind = "json"
             THEN [kv EXCEPT !.data = calls[c].putValue.data]
             ELSE calls[c].putValue
    /\ landed' = Append(landed, c)
    /\ calls' = [calls EXCEPT ![c].kvPuts = @ + 1,
                               ![c].result = calls[c].freshData,
                               ![c].pc = "returned"]
    /\ UNCHANGED <<env, now, ticks, served, h>>

\* await env.EXPERTS_KV.put("experts_data", ...): the whole value replaces
\* the entry, or the write fails, which is logged; freshData is returned
CallKvPut(c) ==
    /\ calls[c].pc = "kvPut"
    /\ \/ /\ kv' = calls[c].putValue
          /\ landed' = Append(landed, c)
          /\ calls' = [calls EXCEPT ![c].kvPuts = @ + 1,
                                     ![c].result = calls[c].freshData,
                                     ![c].pc = "returned"]
       \/ /\ UNCHANGED <<kv, landed>>
          /\ calls' = [calls EXCEPT ![c].kvPuts = @ + 1, ![c].putFailed = TRUE,
                                     ![c].result = calls[c].freshData,
                                     ![c].pc = "returned"]
    /\ UNCHANGED <<env, now, ticks, served, h>>

\* time passes (Date.now() grows)
CacheTick ==
    /\ ticks < MaxCacheTicks
    /\ ticks' = ticks + 1
    /\ \E d \in CacheTickSteps : now' = now + d
    /\ UNCHANGED <<calls, landed, env, kv, served, h>>

CacheNext ==
    \/ \E c \in Callers : CallStart(c)
    \/ \E c \in Callers : CallKvGet(c)
    \/ \E c \in Callers : CallFetchServe(c)
    \/ \E c \in Callers : CallFetchReturn(c)
    \/ \E c \in Callers : CallKvPut(c)
    \/ CacheTick

CacheSpec == CacheInit /\ [][CacheNext]_vars

-----------------------------------------------------------------------------
(* Runs of the handler one after another on a fresh cache entry, each      *)
(* going through findExpertsWithAI, with a record of how the matching      *)
(* calls of the earlier runs went.                                         *)

ChainInit ==
    /\ env = [ALLOWED_GROUP_CHAT_IDS |-> GroupsA, ALLOWED_USER_IDS |-> UsersA,
              credentialsOk |-> TRUE]
    /\ kv \in {CacheEntry(0 - 1, SheetA), CacheEntry(0 - 1, SheetB),
               CacheEntry(0 - 1, SheetHeaderOnly), CacheEntry(0 - 1, NoSheet)}
    /\ now = 0
    /\ ticks = 0
    /\ served = 0
    /\ h = IdleHandler
    /\ calls = NoCalls
    /\ landed = <<>>

\* how the matching call of the run that has just ended went
MatchingRecord(hh) == [genCalls |-> hh.genCalls, aiResult |-> hh.aiResult]

\* the next update arrives once the run before it has ended
ChainReceive ==
    /\ h.pc \in {"idle", "done"}
    /\ served < MaxUpdates
    /\ served' = served + 1
    /\ \E chatType \in {"private", "supergroup"} :
          LET chatId == IF IsGroupChat(chatType) THEN 0 - 100 ELSE 7
              seen == IF h.pc = "done"
                      THEN Append(h.earlier, MatchingRecord(h)) ELSE h.earlier
          IN  h' = [StartHandler(chatType, chatId, 7, TextIos, served + 1)
                       EXCEPT !.earlier = seen]
    /\ UNCHANGED <<calls, landed, env, kv, now, ticks>>

ChainNext ==
    \/ ChainReceive
    \/ KvGet
    \/ ListModels
    \/ GeneratePrimary
    \/ GenerateSecondary
    \/ GenerateTertiary
    \/ ReplyResult
    \/ ReplyFailure

ChainSpec == ChainInit /\ [][ChainNext]_vars

-----------------------------------------------------------------------------
(* The authorization gate over whitelists with entries that are near       *)
(* misses of the ids: each run is a blank message, denied or answered with *)
(* the usage hint.                                                         *)

ListCommaOnly == <<",">>

ListWildcard == <<"*">>

ListNearSeven == <<"7", ",", " ", "7", "*", ",", " ", "*", ",", ",", "7", "7", "7">>

ListPadded == <<" ", "7", "7", " ", ",", "8">>

ListNearGroup == <<"-", "1", "0", ",", " ", "1", "0", "0", ",",
                   "-", "1", "0", "0", "1", ",", "0", "0">>

ListPaddedGroup == <<" ", "-", "1", "0", "0", " ">>

\* the values of ALLOWED_GROUP_CHAT_IDS and ALLOWED_USER_IDS considered
\* (the empty value also stands for an unset variable)
WhitelistValues ==
    {<<>>, ListCommaOnly, ListWildcard, ListNearSeven, ListPadded,
     ListNearGroup, ListPaddedGroup}

WhitelistChatIds == {0 - 100, 0 - 200}

WhitelistUserIds == {7, 77}

WhitelistInit ==
    /\ env \in [ALLOWED_GROUP_CHAT_IDS : WhitelistValues,
                ALLOWED_USER_IDS : WhitelistValues,
                credentialsOk : {TRUE}]
    /\ kv = KvNull
    /\ now = 0
    /\ ticks = 0
    /\ served = 0
    /\ h = IdleHandler
    /\ calls = NoCalls
    /\ landed = <<>>

WhitelistReceive ==
    /\ h.pc \in {"idle", "done"}
    /\ served < MaxUpdates
    /\ served' = served + 1
    /\ \E chatType \in ChatTypes, chatId \in WhitelistChatIds,
          userId \in WhitelistUserIds :
            h' = StartHandler(chatType, chatId, userId, TextBlank, served + 1)
    /\ UNCHANGED <<calls, landed, env, kv, now, ticks>>

WhitelistNext ==
    \/ WhitelistReceive
    \/ ReplyDenied
    \/ ReplyUsage

WhitelistSpec == WhitelistInit /\ [][WhitelistNext]_vars

-----------------------------------------------------------------------------
(* The fetch handler of the worker on the /data and /experts routes, one   *)
(* request after another: getExpertData as above, then the Response.       *)

DataPaths == {"/data", "/experts"}

RouteInit ==
    /\ env \in [ALLOWED_GROUP_CHAT_IDS : {GroupsA}, ALLOWED_USER_IDS : {UsersA},
                credentialsOk : BOOLEAN]
    /\ kv \in {KvNull, KvGarbage, CacheEntry(0 - TTL, SheetA)}
    /\ now = 0
    /\ ticks = 0
    /\ served = 0
    /\ h = IdleHandler
    /\ calls = NoCalls
    /\ landed = <<>>

\* url.pathname === '/data' || url.pathname === '/experts': the handler goes
\* straight to await getExpertData(env), which begins with KV.get
RouteRequest(c) ==
    /\ calls[c].pc = "idle"
    /\ \A d \in Callers : d < c => calls[d].pc = "responded"
    /\ \E path \in DataPaths :
          calls' = [calls EXCEPT ![c].path = path, ![c].pc = "kvGet"]
    /\ UNCHANGED <<landed, env, kv, now, ticks, served, h>>

\* variant: the catch block passes the error's name on to the client
ResponseFor_LeaksError(call) ==
    IF call.pc = "returned"
    THEN [call EXCEPT !.status = 200, !.body = DatasetBody(call.result),
                      !.pc = "responded"]
    ELSE [call EXCEPT !.status = 500, !.body = ErrorBody(call.thrown),
                      !.pc = "responded"]

\* the Response built after await getExpertData(env): 200 with the data, or
\* in the catch block 500 with the fixed error, whether the error is a
\* SheetsUnavailableError or not
ResponseFor(call) ==
    IF call.pc = "returned"
    THEN [call EXCEPT !.status = 200, !.body = DatasetBody(call.result),
                      !.pc = "responded"]
    ELSE IF call.thrown = "SheetsUnavailableError"
         THEN [call EXCEPT !.status = 500, !.body = ErrorBody(UnableToAccessText),
                           !.pc = "responded"]
         ELSE [call EXCEPT !.status = 500, !.body = ErrorBody(UnableToAccessText),
                           !.pc = "responded"]

RouteRespond(c) ==
    /\ calls[c].pc \in {"returned", "threw"}
    /\ calls' = [calls EXCEPT ![c] = ResponseFor(calls[c])]
    /\ UNCHANGED <<landed, env, kv, now, ticks, served, h>>

RouteNext ==
    \/ \E c \in Callers : RouteRequest(c)
    \/ \E c \in Callers : CallKvGet(c)
    \/ \E c \in Callers : CallFetchServe(c)
    \/ \E c \in Callers : CallFetchReturn(c)
    \/ \E c \in Callers : CallKvPut(c)
    \/ \E c \in Callers : RouteRespond(c)
    \/ CacheTick

RouteSpec == RouteInit /\ [][RouteNext]_vars

-----------------------------------------------------------------------------
(* The same requests over a store whose entry was put there from outside:  *)
(* text that is not JSON, the empty string, an entry without a timestamp,  *)
(* an entry stamped later than the worker's clock.                         *)

\* how far ahead of the clock the timestamp of the entry from outside is
StampAhead == 2

OutsideEntries ==
    {KvGarbage, KvEmpty, EntryWithoutTimestamp(SheetA), CacheEntry(StampAhead, SheetA)}

StoreInit ==
    /\ env \in [ALLOWED_GROUP_CHAT_IDS : {GroupsA}, ALLOWED_USER_IDS : {UsersA},
                credentialsOk : BOOLEAN]
    /\ kv \in OutsideEntries
    /\ now = 0
    /\ ticks = 0
    /\ served = 0
    /\ h = IdleHandler
    /\ calls = NoCalls
    /\ landed = <<>>

StoreSpec == StoreInit /\ [][RouteNext]_vars

-----------------------------------------------------------------------------
(* The fetch handler of the worker as a whole: every path and method, one  *)
(* request after another.  A POST to /webhook is handed to the webhook     *)
(* callback of the bot, which dispatches the update to the message         *)
(* handler, answers by itself, or throws.                                  *)

GreetingText == "Hello from PolzaGPT!"

WebhookErrorText == "Webhook error"

\* url.pathname and request.method of the requests considered
WorkerPaths == {"/health", "/webhook", "/data", "/experts", "/"}

Methods == {"GET", "POST"}

\* variant: the webhook route does not look at the method
Dispatch_WebhookAnyMethod(call, path, method) ==
    LET req == [call EXCEPT !.path = path, !.method = method]
    IN  IF path = "/health"
        THEN [req EXCEPT !.status = 200, !.body = TextBody("OK"), !.pc = "responded"]
        ELSE IF path = "/webhook"
        THEN [req EXCEPT !.botCalls = @ + 1, !.pc = "webhook"]
        ELSE IF path = "/data" \/ path = "/experts"
        THEN [req EXCEPT !.pc = "kvGet"]
        ELSE [req EXCEPT !.status = 200, !.body = TextBody(GreetingText),
                         !.pc = "responded"]

\* fetch(request, env) up to its first awaited call or its Response
Dispatch(call, path, method) ==
    LET req == [call EXCEPT !.path = path, !.method = method]
    IN  IF path = "/health"
        THEN [req EXCEPT !.status = 200, !.body = TextBody("OK"), !.pc = "responded"]
        ELSE IF path = "/webhook" /\ method = "POST"
        THEN [req EXCEPT !.botCalls = @ + 1, !.pc = "webhook"]
        ELSE IF path = "/data" \/ path = "/experts"
        THEN [req EXCEPT !.pc = "kvGet"]
        ELSE [req EXCEPT !.status = 200, !.body = TextBody(GreetingText),
                         !.pc = "responded"]

WorkerInit ==
    /\ env = [ALLOWED_GROUP_CHAT_IDS |-> GroupsA, ALLOWED_USER_IDS |-> UsersA,
              credentialsOk |-> TRUE]
    /\ kv = CacheEntry(0 - 1, SheetA)
    /\ now = 0
    /\ ticks = 0
    /\ served = 0
    /\ h = IdleHandler
    /\ calls = NoCalls
    /\ landed = <<>>

\* a request arrives once the one before it has been answered
WorkerRequest(c) ==
    /\ calls[c].pc = "idle"
    /\ \A d \in Callers : d < c => calls[d].pc = "responded"
    /\ \E path \in WorkerPaths, method \in Methods :
          calls' = [calls EXCEPT ![c] = Dispatch(@, path, method)]
    /\ UNCHANGED <<landed, env, kv, now, ticks, served, h>>

\* variant: the catch block answers with the error it caught
WebhookCatch_PassesOn(call) ==
    [call EXCEPT !.thrown = "Error", !.status = 502,
                 !.body = TextBody("Error"), !.pc = "responded"]

\* the catch block around the webhook handler: console.error and the fixed
\* 500 Response
WebhookCatch(call) ==
    [call EXCEPT !.thrown = "Error", !.status = 500,
                 !.body = TextBody(WebhookErrorText), !.pc = "responded"]

\* await webhookHandler(request): the bot is created and the callback reads
\* the request; it throws, or answers 401 by itself when the secret token
\* of the request is not the configured one, or dispatches the update (a
\* direct message with a query, from a whitelisted user or from another
\* one) to the message handler
WebhookEnter(c) ==
    /\ calls[c].pc = "webhook"
    /\ h.pc \in {"idle", "done"}
    /\ \/ /\ calls' = [calls EXCEPT ![c] = WebhookCatch(@)]
          /\ UNCHANGED <<served, h>>
       \/ /\ calls' = [calls EXCEPT ![c].status = 401, ![c].body = TextBody(""),
                                     ![c].pc = "responded"]
          /\ UNCHANGED <<served, h>>
       \/ /\ calls' = [calls EXCEPT ![c].pc = "handling"]
          /\ served' = served + 1
          /\ \E userId \in {7, 9} :
                h' = StartHandler("private", userId, userId, TextIos, served + 1)
    /\ UNCHANGED <<landed, env, kv, now, ticks>>

\* the callback answers 200 once the handler has returned, or throws because
\* the handler did not return in time
WebhookReturn(c) ==
    /\ calls[c].pc = "handling"
    /\ \/ /\ h.pc = "done"
          /\ calls' = [calls EXCEPT ![c].status = 200, ![c].body = TextBody(""),
                                     ![c].pc = "responded"]
       \/ calls' = [calls EXCEPT ![c] = WebhookCatch(@)]
    /\ UNCHANGED <<landed, env, kv, now, ticks, served, h>>

WorkerNext ==
    \/ \E c \in Callers : WorkerRequest(c)
    \/ \E c \in Callers : WebhookEnter(c)
    \/ \E c \in Callers : WebhookReturn(c)
    \/ \E c \in Callers : CallKvGet(c)
    \/ \E c \in Callers : RouteRespond(c)
    \/ ReplyDenied
    \/ KvGet
    \/ ListModels
    \/ GeneratePrimary
    \/ GenerateSecondary
    \/ GenerateTertiary
    \/ ReplyResult
    \/ ReplyFailure

WorkerSpec == WorkerInit /\ [][WorkerNext]_vars

TypeOK ==
    /\ h.pc \in {"idle", "replyDenied", "replyUsage", "kvGet", "fetch", "kvPut",
                 "listModels", "gen1", "gen2", "gen3", "replyResult",
                 "replyFailure", "done"}
    /\ served \in 0..MaxUpdates
    /\ ticks \in 0..MaxTicks \cup 0..MaxCacheTicks
    /\ \A c \in Callers :
          calls[c].pc \in {"idle", "kvGet", "fetch", "fetchWait", "kvPut",
                           "returned", "threw", "responded",
                           "webhook", "handling"}
    /\ h.attempts \in 0..Len(ModelChain)

-----------------------------------------------------------------------------
(* Properties.                                                             *)

\* the run has made no call to the cache store, the data source or the
\* matching service
NoDownstreamCalls ==
    /\ h.kvGets = 0 /\ h.kvPuts = 0
    /\ h.fetches = 0
    /\ h.listCalls = 0 /\ h.genCalls = 0

AllSentTextsIn(texts) == \A i \in 1..Len(h.outbox) : h.outbox[i].text \in texts

\* C1: a run whose authorization check answered Denied makes no cache-store
\* read or write, no remote fetch and no matching-service call up to its
\* end, and the denial text is the only text it sends (once, by its end).
C1_DeniedTouchesNothing ==
    (h.pc # "idle" /\ ~h.authorized) =>
        /\ NoDownstreamCalls
        /\ h.pc \in {"replyDenied", "done"}
        /\ AllSentTextsIn({DeniedText})
        /\ Len(h.outbox) = (IF h.pc = "done" THEN 1 ELSE 0)

\* Scenario B: whitelisted group -100, chat -200: denied, denial text sent
C1_Witness ==
    /\ h.pc = "done" /\ ~h.authorized
    /\ h.isGroup /\ h.chatId = -200
    /\ Includes(allowedGroupChatIds, toString(-100))
    /\ Len(h.outbox) = 1 /\ h.outbox[1].text = DeniedText
    /\ NoDownstreamCalls

\* The ids a whitelist value names, read the other way round from the code:
\* each trimmed entry that is the canonical decimal numeral of an integer
\* names that integer; any other entry names nothing.
DigitValue(c) == CHOOSE d \in 0..9 : DigitChar(d) = c

IsDigit(c) == \E d \in 0..9 : DigitChar(d) = c

RECURSIVE DigitsValue(_)
DigitsValue(s) ==
    IF Len(s) = 1 THEN DigitValue(s[1])
    ELSE 10 * DigitsValue(SubSeq(s, 1, Len(s) - 1)) + DigitValue(s[Len(s)])

IsNumeral(s) ==
    /\ s # <<>>
    /\ \A i \in 1..Len(s) : IsDigit(s[i])
    /\ (Len(s) > 1 => s[1] # "0")

Names(entry, n) ==
    \/ IsNumeral(entry) /\ DigitsValue(entry) = n
    \/ /\ Len(entry) > 1 /\ entry[1] = "-" /\ IsNumeral(Tail(entry))
       /\ Tail(entry) # <<"0">>
       /\ 0 - DigitsValue(Tail(entry)) = n

InWhitelist(n, value) ==
    \E i \in 1..Len(ParseWhitelist(value)) : Names(ParseWhitelist(value)[i], n)

\* C2: the authorization result of a run is decided by the chat kind and one
\* id: for a group or supergroup chat it is membership of the chat id in the
\* group whitelist, for any other chat kind membership of the user id in the
\* user whitelist; the other id and the other whitelist play no part.
C2_AuthorizationByKind ==
    h.pc # "idle" =>
        h.authorized =
            (IF h.chatType \in {"group", "supergroup"}
             THEN InWhitelist(h.chatId, env.ALLOWED_GROUP_CHAT_IDS)
             ELSE InWhitelist(h.userId, env.ALLOWED_USER_IDS))

\* user 8 is named by the group whitelist only, chat -200 by the user
\* whitelist only: 8 writing in the whitelisted group -100 is authorized
C2_Witness ==
    /\ h.pc # "idle" /\ h.authorized
    /\ h.chatType = "supergroup" /\ h.chatId = -100 /\ h.userId = 8
    /\ ~InWhitelist(8, env.ALLOWED_USER_IDS)
    /\ InWhitelist(8, env.ALLOWED_GROUP_CHAT_IDS)

\* the error messages the source's three markers select
TransientErrors == {ErrOverloaded, Err503, ErrNotFound}

\* the awaited generateContent call of attempt k
GenPc(k) == <<"gen1", "gen2", "gen3">>[k]

\* C3: the three model identifiers are attempted in their fixed priority
\* order; the call of attempt k+1 is under way only when attempt k has
\* failed with a transient error; after a non-transient error on attempt k
\* the orchestrator has returned without attempt k+1; after a transient
\* error on attempt k < 3 the call of attempt k+1 is under way.
C3_FallbackOrder ==
    /\ h.attempts \in 0..Len(ModelChain)
    /\ h.models = SubSeq(ModelChain, 1, h.attempts)
    /\ h.pc \in {"gen1", "gen2", "gen3"} => h.pc = GenPc(h.attempts + 1)
    /\ h.pc \in {"gen2", "gen3"} =>
          (~h.succeeded /\ h.lastError \in TransientErrors)
    /\ (h.attempts >= 1 /\ ~h.succeeded /\ h.lastError \notin TransientErrors)
          => h.pc = "replyResult"
    /\ (h.attempts \in 1..(Len(ModelChain) - 1) /\ ~h.succeeded
           /\ h.lastError \in TransientErrors)
          => h.pc = GenPc(h.attempts + 1)

\* attempt 2 has failed with a transient error and the call of attempt 3,
\* on the last identifier of the chain, is under way
C3_Witness ==
    /\ h.attempts = 2 /\ h.models = SubSeq(ModelChain, 1, 2)
    /\ h.lastError = Err503 /\ ~h.succeeded
    /\ h.pc = "gen3"

\* C4 as stated: the text returned after a successful attempt is that
\* attempt's text.
C4_ReturnsAttemptText_Original ==
    h.succeeded => h.responseMessage = h.rawText

SuccessStopsChain ==
    h.succeeded =>
        /\ h.pc = "replyResult"
        /\ h.attempts \in 1..Len(ModelChain)
        /\ h.genCalls = h.attempts
        /\ h.models = SubSeq(ModelChain, 1, h.attempts)
        /\ h.responseMessage = (IF h.rawText # "" THEN h.rawText ELSE NoAnswerText)

NoAttemptAfterSuccess ==
    h.succeeded => (h'.genCalls = h.genCalls /\ h'.pc \notin {"gen1", "gen2", "gen3"})

\* C4 (amended): once an attempt succeeds the orchestrator returns that
\* attempt's text, or the fixed no-answer text when that text is empty, and
\* attempts no later identifier; the number of attempts made is the position
\* in the chain of the successful one.
C4_SuccessStopsChain == [](SuccessStopsChain) /\ [][NoAttemptAfterSuccess]_vars

\* Scenario F: attempt 1 failed with the overload error, attempt 2 answered
C4_Witness ==
    /\ h.succeeded /\ h.attempts = 2 /\ h.genCalls = 2
    /\ h.lastError = ErrOverloaded
    /\ h.rawText = "answer-2" /\ h.responseMessage = "answer-2"

ExhaustedChain ==
    h.attempts = Len(ModelChain) /\ ~h.succeeded /\ h.lastError \in TransientErrors

ExhaustedIsUnavailable ==
    ExhaustedChain =>
        /\ h.pc = "replyResult"
        /\ h.genCalls = Len(ModelChain)
        /\ h.thrown = "none"
        /\ h.responseMessage = ServiceUnavailableText

\* the step that leaves an exhausted chain sends the unavailable text and
\* makes no further attempt
ExhaustedSendsUnavailable ==
    (ExhaustedChain /\ h' # h) =>
        /\ h'.genCalls = h.genCalls
        /\ h'.outbox = Append(h.outbox,
              Sent(ServiceUnavailableText, h.messageId, "MarkdownV2",
                   h'.pc = "done"))

\* C5: when all three attempts have failed with a transient error, no
\* further attempt is made, findExpertsWithAI returns the
\* matching-service-unavailable text and not a model's answer, and that text
\* is what the handler sends next.
C5_ExhaustedChainUnavailable ==
    [](ExhaustedIsUnavailable) /\ [][ExhaustedSendsUnavailable]_vars

\* the third attempt has failed with the overload error like the two before
\* it, and the orchestrator has returned the unavailable text
C5_Witness ==
    /\ ExhaustedChain /\ h.lastError = ErrOverloaded
    /\ h.pc = "replyResult" /\ h.genCalls = 3
    /\ h.responseMessage = ServiceUnavailableText

\* getExpertData has returned to the handler, which has not yet moved on
CacheCallReturned ==
    h.cacheRead /\ h.aiEntered /\ h.pc \in {"listModels", "replyResult"}
        /\ h.attempts = 0

\* the entry that KV.get answered with is present and younger than the TTL
ReadFreshEntry ==
    /\ h.cacheRead
    /\ h.cached.kind = "json" /\ h.cached.hasTs
    /\ h.readAt - h.cached.ts < TTL

\* KV.get answered with no entry, or with one of age TTL or more
ReadNoneOrStale ==
    /\ h.cacheRead
    /\ \/ h.cached.kind \in {"null", "empty"}
       \/ h.cached.kind = "json" /\ h.cached.hasTs /\ h.readAt - h.cached.ts >= TTL

\* C6: a getExpertData call that reads a present entry with
\* now - timestamp < TTL returns that entry's data unchanged, makes no
\* remote fetch and does not write the cache store.
C6_CacheHitPurity ==
    ReadFreshEntry =>
        /\ CacheCallReturned
        /\ h.cachePath = "hit"
        /\ h.expertData = h.cached.data
        /\ h.thrown = "none"
        /\ h.fetches = 0 /\ h.kvPuts = 0
        /\ kv = h.cached

\* an entry one millisecond short of the TTL is served
C6_Witness ==
    /\ ReadFreshEntry /\ CacheCallReturned
    /\ h.readAt - h.cached.ts = TTL - 1
    /\ h.expertData = SheetA /\ h.fetches = 0

\* the cache entry carries a timestamp read during the call
EntryRefreshed ==
    /\ kv.kind = "json" /\ kv.hasTs
    /\ kv.ts >= h.readAt /\ kv.ts <= now

\* C7 as stated: every call that finds the entry absent or stale makes
\* exactly one fetch, returns the fetched snapshot and leaves the entry's
\* timestamp refreshed to the current time.
C7_MissRefreshes_Original ==
    (ReadNoneOrStale /\ CacheCallReturned) =>
        /\ h.fetches = 1
        /\ h.expertData = h.freshData
        /\ EntryRefreshed

\* C7 (amended): every call that finds the entry absent or of age TTL or
\* more, and returns, has made exactly one remote fetch and returns the
\* snapshot it fetched; when its cache write succeeded the entry holds that
\* snapshot under a timestamp read during the call, after the fetch.
C7_MissFetchesOnce ==
    /\ ReadNoneOrStale => (h.cachePath \in {"miss", "expired"} /\ h.fetches <= 1)
    /\ (ReadNoneOrStale /\ CacheCallReturned) =>
          /\ h.fetches = 1 /\ h.kvPuts = 1
          /\ h.expertData = h.freshData
          /\ h.freshData \in RemoteSheets
          /\ ~h.putFailed => (EntryRefreshed /\ kv.data = h.freshData)

\* Scenario E: an entry aged 4 000 000 ms, one fetch, the new entry stamped
\* with the current time
C7_Witness ==
    /\ ReadNoneOrStale /\ CacheCallReturned
    /\ h.readAt - h.cached.ts = 4000000
    /\ h.fetches = 1 /\ ~h.putFailed
    /\ kv.ts = now /\ kv.data = SheetB /\ h.expertData = SheetB

\* C8: when the write of a freshly fetched snapshot fails, getExpertData
\* still returns exactly that snapshot, nothing is thrown to the handler,
\* the handler goes on into findExpertsWithAI, and the cache entry is what
\* it was before the failed write.
C8_PersistFailureNonFatal ==
    h.putFailed =>
        /\ CacheCallReturned
        /\ h.thrown = "none"
        /\ h.expertData = h.freshData
        /\ h.freshData \in RemoteSheets
        /\ kv = h.cached

\* a stale entry, the write of the fresh snapshot failed, the model listing
\* call of the matching stage under way
C8_Witness ==
    /\ h.putFailed /\ h.pc = "listModels" /\ h.aiEntered
    /\ h.cached = CacheEntry(0 - TTL, SheetA) /\ kv = h.cached
    /\ h.expertData = SheetB

\* C9: a failed remote fetch ends the request: SheetsUnavailableError reaches
\* the handler, the fetch is not repeated, the cache store is not written
\* (the entry read stays, and its data is not used), the matching service is
\* not called, and the one text sent is the generic failure text.
C9_FetchFailureFatal ==
    /\ h.fetchFailed =>
          /\ h.thrown = "SheetsUnavailableError"
          /\ h.pc = "replyFailure"
          /\ ~h.aiEntered
          /\ h.expertData = NoSheet
          /\ kv = h.cached
    /\ h.thrown = "SheetsUnavailableError" =>
          /\ h.pc \in {"replyFailure", "done"}
          /\ h.fetches <= 1
          /\ h.kvPuts = 0
          /\ h.listCalls = 0 /\ h.genCalls = 0
          /\ AllSentTextsIn({GenericFailureText})
          /\ Len(h.outbox) = (IF h.pc = "done" THEN 1 ELSE 0)

\* the fetch failed over a stale entry, which is still in the store
C9_Witness ==
    /\ h.fetchFailed /\ h.thrown = "SheetsUnavailableError"
    /\ h.cachePath = "expired" /\ kv = h.cached /\ kv.data = SheetA
    /\ h.fetches = 1 /\ h.pc = "replyFailure"

\* C10: a run whose extracted query is empty replies with the usage hint
\* of its chat kind and stops, having made no cache-store access, no remote
\* fetch and no matching-service call.
C10_EmptyQueryShortCircuits ==
    (h.pc # "idle" /\ h.authorized /\ h.query = <<>>) =>
        /\ h.pc \in {"replyUsage", "done"}
        /\ NoDownstreamCalls
        /\ AllSentTextsIn({IF h.isGroup THEN UsageTextGroup ELSE UsageTextDirect})
        /\ Len(h.outbox) = (IF h.pc = "done" THEN 1 ELSE 0)

\* Scenario C: a group message made of the mention and spaces
C10_Witness ==
    /\ h.pc = "done" /\ h.authorized /\ h.isGroup
    /\ h.messageText = TextMentionOnly /\ h.query = <<>>
    /\ Len(h.outbox) = 1 /\ h.outbox[1].text = UsageTextGroup
    /\ NoDownstreamCalls

-----------------------------------------------------------------------------
(* Query extraction, stated on the message text.                           *)

\* the pairs made of the two cases of one letter
CasePairs ==
    UNION {{<<UpperCase[i], LowerCase[i]>>, <<LowerCase[i], UpperCase[i]>>} :
             i \in 1..Len(UpperCase)}

\* the same letter, whatever its case
SameLetter(a, b) == a = b \/ <<a, b>> \in CasePairs

\* an occurrence of the mention token, in any letter case, starts at i
MentionOccursAt(s, i) ==
    /\ i >= 1 /\ i + Len(MentionToken) - 1 <= Len(s)
    /\ \A j \in 1..Len(MentionToken) : SameLetter(s[i + j - 1], MentionToken[j])

\* position p of s lies inside an occurrence of the mention token
InMention(s, p) ==
    \E i \in (p - Len(MentionToken) + 1)..p : MentionOccursAt(s, i)

\* s without the characters of its mention occurrences
WithoutMentions(s) ==
    LET keep == {p \in 1..Len(s) : ~InMention(s, p)}
        at(k) == CHOOSE p \in keep : Cardinality({q \in keep : q < p}) = k - 1
    IN  [k \in 1..Cardinality(keep) |-> s[at(k)]]

AllSpace(s) == \A i \in 1..Len(s) : s[i] \in {" ", "\n", "\t"}

\* q is s without its leading and trailing whitespace
IsTrimOf(q, s) ==
    /\ q # <<>> => (~AllSpace(<<q[1]>>) /\ ~AllSpace(<<q[Len(q)]>>))
    /\ \E a \in 0..Len(s) :
          /\ a + Len(q) <= Len(s)
          /\ q = SubSeq(s, a + 1, a + Len(q))
          /\ AllSpace(SubSeq(s, 1, a))
          /\ AllSpace(SubSeq(s, a + Len(q) + 1, Len(s)))

\* C11: in a group or supergroup chat the query passed on is the message
\* text without any of its occurrences of the mention token (whatever their
\* letter case, position and number), trimmed; in any other chat it is the
\* message text trimmed, mention tokens kept.
C11_MentionRemoval ==
    (h.pc # "idle" /\ h.authorized) =>
        IsTrimOf(h.query,
                 IF h.chatType \in {"group", "supergroup"}
                 THEN WithoutMentions(h.messageText)
                 ELSE h.messageText)

\* a group message with the mention at its start and, in another letter
\* case, at its end: the query is what stands between them
C11_Witness ==
    /\ h.pc = "kvGet" /\ h.chatType = "group"
    /\ h.messageText = MentionToken \o PieceIos \o PieceMentionMixed
    /\ h.query = PieceIos

\* the run has taken the empty-query branch
FlaggedEmpty ==
    \/ h.pc = "replyUsage"
    \/ \E i \in 1..Len(h.outbox) : h.outbox[i].text \in {UsageTextGroup, UsageTextDirect}

\* nothing but whitespace is left of the message text (in a group chat:
\* once its mention occurrences are removed)
NothingLeft ==
    IF h.chatType \in {"group", "supergroup"}
    THEN AllSpace(WithoutMentions(h.messageText))
    ELSE AllSpace(h.messageText)

\* C12: an authorized run takes the empty-query branch exactly when nothing
\* but whitespace is left of the text after mention removal; the usage text
\* it then sends is the group one in a group or supergroup chat and the
\* direct one in any other chat, never the other one.
C12_EmptyQueryUsageText ==
    (h.pc # "idle" /\ h.authorized) =>
        /\ FlaggedEmpty <=> NothingLeft
        /\ (FlaggedEmpty /\ h.pc = "done") =>
              /\ Len(h.outbox) = 1
              /\ h.outbox[1].text =
                    (IF h.chatType \in {"group", "supergroup"}
                     THEN UsageTextGroup ELSE UsageTextDirect)
        /\ \A i \in 1..Len(h.outbox) :
              h.outbox[i].text #
                  (IF h.chatType \in {"group", "supergroup"}
                   THEN UsageTextDirect ELSE UsageTextGroup)

\* Scenario C: a group message made of the mention and trailing spaces is
\* answered with the group usage text
C12_Witness ==
    /\ h.pc = "done" /\ h.chatType = "group"
    /\ h.messageText = PieceMentionMixed \o <<" ", " ">>
    /\ h.outbox = <<Sent(UsageTextGroup, h.messageId, "none", TRUE)>>

-----------------------------------------------------------------------------
(* The all-results flag and the result limit, stated on the query.         *)

\* the same letter, Latin or Cyrillic, whatever its case
SameLetterAnyScript(a, b) ==
    \/ SameLetter(a, b)
    \/ \E i \in 1..Len(CyrillicUpper) : {a, b} \subseteq {CyrillicUpper[i], CyrillicLower[i]}

\* the phrase stands in q at position i, in any letter case
PhraseOccursAt(q, phrase, i) ==
    /\ i >= 1 /\ i + Len(phrase) - 1 <= Len(q)
    /\ \A j \in 1..Len(phrase) : SameLetterAnyScript(q[i + j - 1], phrase[j])

\* position i of q is outside the text or holds whitespace
EndOrSpace(q, i) == i < 1 \/ i > Len(q) \/ AllSpace(<<q[i]>>)

\* q contains the phrase as a whole phrase, bounded by whitespace or by the
\* ends of the text
ContainsWholePhrase(q, phrase) ==
    \E i \in 1..Len(q) :
        /\ PhraseOccursAt(q, phrase, i)
        /\ EndOrSpace(q, i - 1)
        /\ EndOrSpace(q, i + Len(phrase))

\* q contains the phrase somewhere
ContainsPhrase(q, phrase) == \E i \in 1..Len(q) : PhraseOccursAt(q, phrase, i)

\* the prompt of the run's matching request has been built
PromptBuilt == h.pc = "gen1"

\* C13: the prompt's all-results remark is present for every query that
\* contains one of the seven phrases as a whole phrase bounded by whitespace
\* or the ends of the text, in any letter case, and absent for every query
\* that contains none of them; the Russian phrases count as the English do.
C13_AllResultsFlag ==
    PromptBuilt =>
        /\ (\E k \in 1..Len(ShowAllPhrases) : ContainsWholePhrase(h.query, ShowAllPhrases[k]))
              => h.prompt.showAllRemark
        /\ (\A k \in 1..Len(ShowAllPhrases) : ~ContainsPhrase(h.query, ShowAllPhrases[k]))
              => ~h.prompt.showAllRemark

\* C14: the result limit written into the prompt of the matching request is
\* 5 or 20, and it is 20 exactly when the prompt carries the all-results
\* remark; the query "show all ios developers" forwards 20 and the query
\* "ios" forwards 5.
C14_ResultCeiling ==
    PromptBuilt =>
        /\ h.prompt.maxResults \in {5, 20}
        /\ (h.prompt.maxResults = 20) <=> h.prompt.showAllRemark
        /\ h.query = TextShowAllIos => h.prompt.maxResults = 20
        /\ h.query = PieceIos => h.prompt.maxResults = 5

\* Scenario D
C14_Witness ==
    /\ PromptBuilt /\ h.messageText = TextShowAllIos
    /\ h.prompt.query = TextShowAllIos
    /\ h.prompt.showAllRemark /\ h.prompt.maxResults = 20

-----------------------------------------------------------------------------
(* Response delivery.                                                      *)

\* the last text the run has sent
LastSent == h.outbox[Len(h.outbox)]

\* the run has ended with the data source unavailable, with the matching
\* service unavailable, or on an exception of no class of its own
EndedInFailure ==
    /\ h.pc = "done"
    /\ \/ h.thrown \in {"SheetsUnavailableError", "KVError", "SyntaxError", "ReplyError"}
       \/ h.aiResult = "unavailable"

C16_ExactlyOneMessage_Original ==
    h.pc = "done" => Len(h.outbox) = 1

\* the sends of the run that the platform accepted
Delivered == {i \in 1..Len(h.outbox) : h.outbox[i].ok}

\* C16 (amended): a run sends nothing before its end except a rejected
\* match-response send; a run that has ended has made exactly one send, or
\* exactly two when its match-response send was rejected, the second being
\* the generic failure text; only the last send of a run can have been
\* accepted, so a run delivers at most one message.
C16_OneSendPerOutcome ==
    /\ h.pc \notin {"replyFailure", "done"} => h.outbox = <<>>
    /\ h.pc = "replyFailure" => Len(h.outbox) = (IF h.thrown = "ReplyError" THEN 1 ELSE 0)
    /\ h.pc = "done" => Len(h.outbox) = (IF h.thrown = "ReplyError" THEN 2 ELSE 1)
    /\ Len(h.outbox) = 2 =>
          /\ h.outbox[1].parseMode = "MarkdownV2" /\ ~h.outbox[1].ok
          /\ h.outbox[2].text = GenericFailureText /\ h.outbox[2].parseMode = "none"
    /\ Delivered \subseteq {Len(h.outbox)}
    /\ Delivered # {} => h.pc = "done"

\* the match response was rejected and the generic failure text delivered
C16_Witness ==
    /\ h.pc = "done" /\ h.thrown = "ReplyError" /\ h.aiResult = "answer"
    /\ Len(h.outbox) = 2
    /\ h.outbox[1].text = "answer-1" /\ ~h.outbox[1].ok
    /\ h.outbox[2] = Sent(GenericFailureText, h.messageId, "none", TRUE)

\* C17: in a group or supergroup chat every message the run sends (denial,
\* usage hint, match response, failure text) is a reply that references the
\* message that started the run.
C17_GroupRepliesThreaded ==
    h.chatType \in {"group", "supergroup"} =>
        \A i \in 1..Len(h.outbox) : h.outbox[i].replyTo = h.messageId

\* C18: a text is sent in rich-text mode only if an attempt of the same run
\* succeeded and the text is the one that attempt returned.
C18_RichTextOnlyForAnswers ==
    \A i \in 1..Len(h.outbox) :
        h.outbox[i].parseMode = "MarkdownV2" =>
            (h.aiResult = "answer" /\ h.outbox[i].text = h.answerText)

-----------------------------------------------------------------------------
(* Overlapping calls of getExpertData.                                     *)

\* the call found the entry missing or stale
SawNoneOrStale(c) == calls[c].cachePath \in {"miss", "expired"}

\* the record a call writes: its own snapshot under the timestamp read when
\* its fetch completed
OwnRecord(c) == CacheEntry(calls[c].fetchedAt, calls[c].servedData)

\* the calls whose write has reached the store
Writers == {landed[i] : i \in 1..Len(landed)}

\* C19: of overlapping calls that each find the entry missing or stale,
\* each makes one fetch and one write of its own and returns the whole
\* snapshot that it fetched itself; the cache entry is at every moment the
\* entry from before the calls (absent, or one whole record) or the whole
\* record of the one call whose write reached the store last, and so it is
\* once all calls have finished.
C19_IndependentRefresh ==
    /\ \A c \in Callers : SawNoneOrStale(c) =>
          /\ calls[c].fetches <= 1 /\ calls[c].kvPuts <= 1
          /\ calls[c].pc = "kvPut" =>
                (calls[c].fetches = 1 /\ calls[c].putValue = OwnRecord(c))
          /\ calls[c].pc = "returned" =>
                /\ calls[c].fetches = 1 /\ calls[c].kvPuts = 1
                /\ calls[c].result = calls[c].servedData
                /\ calls[c].result \in CacheSheets
          /\ c \in Writers <=> (calls[c].pc = "returned" /\ ~calls[c].putFailed)
    /\ Cardinality(Writers) = Len(landed)
    /\ landed = <<>> => kv \in {KvNull, CacheEntry(0 - TTL, SheetA)}
    /\ landed # <<>> => kv = OwnRecord(landed[Len(landed)])

\* both calls found the entry stale, the data source read the sheet for
\* them at two instants at which it held different rows, the second call's
\* write reached the store first, and the entry is the first call's record
C19_Witness ==
    /\ \A c \in Callers : SawNoneOrStale(c) /\ calls[c].pc = "returned"
    /\ calls[1].cachePath = "expired" /\ calls[2].cachePath = "expired"
    /\ landed = <<2, 1>>
    /\ calls[1].result = SheetA /\ calls[2].result = SheetB
    /\ calls[1].servedAt # calls[2].servedAt
    /\ kv = OwnRecord(1) /\ kv # OwnRecord(2)

\* C20 as stated: the snapshot returned on a cache hit was read from the
\* data source less than TTL before the moment it is returned.
C20_HitYoungerThanTTL_Original ==
    \A c \in Callers :
        calls[c].cachePath = "hit" =>
            calls[c].readAt - calls[c].sourceServedAt < TTL

\* C20 (amended): an entry is served exactly when the clock is less than
\* TTL past its timestamp; the snapshot returned on a hit is the whole
\* record of another call, stamped at the instant that call's fetch
\* completed, which is less than TTL before the moment of the return and
\* not earlier than the instant the data source read the sheet.
C20_HitWithinTTLOfStamp ==
    \A c \in Callers :
        /\ calls[c].cachePath = "hit" =>
              /\ calls[c].pc = "returned"
              /\ calls[c].cached.kind = "json"
              /\ calls[c].readAt - calls[c].cached.ts < TTL
              /\ calls[c].result = calls[c].cached.data
              /\ calls[c].fetches = 0 /\ calls[c].kvPuts = 0
              /\ \E w \in Callers \ {c} :
                    /\ calls[c].cached = OwnRecord(w)
                    /\ calls[w].servedAt <= calls[w].fetchedAt
                    /\ calls[c].readAt - calls[w].fetchedAt < TTL
        /\ calls[c].cachePath = "expired" =>
              (calls[c].cached.kind = "json"
                 /\ calls[c].readAt - calls[c].cached.ts >= TTL)
        /\ calls[c].cachePath = "miss" => calls[c].cached = KvNull

\* the second call is served the first call's record one millisecond short
\* of TTL after its stamp, TTL after the data source read the sheet
C20_Witness ==
    /\ calls[2].cachePath = "hit" /\ calls[2].pc = "returned"
    /\ calls[2].cached = OwnRecord(1)
    /\ calls[2].readAt - calls[1].fetchedAt = TTL - 1
    /\ calls[2].readAt - calls[1].servedAt = TTL

-----------------------------------------------------------------------------
\* C21: within one run of the handler the stages follow one another: the
\* cache store is read only in a run that passed the authorization check and
\* extracted a non-empty query; findExpertsWithAI is entered, and the
\* matching service called, only after getExpertData returned a dataset
\* without throwing (one cache read, every fetch followed by its persist
\* attempt); nothing is sent while retrieval or matching is under way, and
\* the rich-text reply goes out only after the matching call has returned.
RetrievalPcs == {"kvGet", "fetch", "kvPut"}

MatchingPcs == {"listModels", "gen1", "gen2", "gen3"}

RetrievalErrors == {"KVError", "SyntaxError", "SheetsUnavailableError"}

C21_StagesInSequence ==
    /\ ~h.authorized => h.query = <<>> /\ h.kvGets = 0
    /\ h.kvGets > 0 \/ h.pc \in RetrievalPcs => h.authorized /\ h.query # <<>>
    /\ h.pc = "kvGet" => h.kvGets = 0 /\ h.fetches = 0
    /\ h.fetches + h.kvPuts > 0 \/ h.pc \in {"fetch", "kvPut"} => h.kvGets = 1
    /\ h.aiEntered =>
          /\ h.kvGets = 1 /\ h.kvPuts = h.fetches
          /\ h.thrown = "none" /\ ~h.fetchFailed
    /\ h.listCalls + h.genCalls > 0 \/ h.pc \in MatchingPcs =>
          /\ h.kvGets = 1 /\ h.kvPuts = h.fetches
          /\ h.thrown \notin RetrievalErrors
          /\ ~NoExpertData(h.expertData)
    /\ h.genCalls > 0 => h.listCalls = 1
    /\ h.pc \in RetrievalPcs \cup MatchingPcs \cup {"replyResult"} =>
          h.outbox = <<>>
    /\ \A i \in 1..Len(h.outbox) :
          h.outbox[i].parseMode = "MarkdownV2" =>
              /\ i = 1
              /\ h.aiResult # "none"
              /\ h.aiResult # "noData" => h.genCalls > 0
              /\ h.pc \in {"replyFailure", "done"}

\* a run that refreshed the snapshot, fell back once and delivered an answer
C21_Witness ==
    /\ h.pc = "done" /\ h.authorized
    /\ h.kvGets = 1 /\ h.fetches = 1 /\ h.kvPuts = 1
    /\ h.listCalls = 1 /\ h.genCalls = 2 /\ h.aiResult = "answer"
    /\ Len(h.outbox) = 1 /\ h.outbox[1].ok
    /\ h.outbox[1].parseMode = "MarkdownV2"

-----------------------------------------------------------------------------
\* C22: within one call of findExpertsWithAI every model identifier of the
\* chain is tried at most once, so a run makes at most three generateContent
\* calls whatever errors the service returns.
C22_AtMostOncePerModel ==
    /\ Len(ModelChain) = 3
    /\ \A i, j \in 1..Len(ModelChain) : i # j => ModelChain[i] # ModelChain[j]
    /\ h.genCalls <= 3
    /\ h.aiEntered =>
          /\ Len(h.models) = h.genCalls
          /\ \A i, j \in 1..Len(h.models) : i # j => h.models[i] # h.models[j]
          /\ \A i \in 1..Len(h.models) :
                \E k \in 1..Len(ModelChain) : h.models[i] = ModelChain[k]

\* three attempts, all failed: two overload errors and a last error
C22_Witness ==
    /\ h.pc = "replyResult" /\ h.genCalls = 3 /\ Len(h.models) = 3
    /\ ~h.succeeded /\ h.lastError = Err429
    /\ h.aiResult = "unavailable"

-----------------------------------------------------------------------------
\* the errors by kind: capacity exhausted (overloaded, 503), model not found,
\* rate limited (429), malformed request (400)
CapacityErrors == {ErrOverloaded, Err503}

ModelNotFoundErrors == {ErrNotFound}

RateLimitErrors == {Err429}

MalformedRequestErrors == {Err400}

\* an attempt other than the last has failed and the call has acted on it
FailedBeforeLast ==
    /\ h.attempts \in 1..(Len(ModelChain) - 1)
    /\ ~h.succeeded /\ h.lastError # <<>>

\* C23 as stated: the chain advances past a failed attempt exactly on a
\* rate-limited, capacity-exhausted or model-not-found error.
C23_TransientClass_Original ==
    FailedBeforeLast =>
        (h.pc = GenPc(h.attempts + 1) <=>
            h.lastError \in RateLimitErrors \cup CapacityErrors \cup ModelNotFoundErrors)

\* C23: the chain advances past a failed attempt 1 or 2 exactly on a
\* capacity-exhausted (overloaded, 503) or model-not-found error; on every
\* other error, a rate-limited or malformed request among them, the call
\* gives up with the fixed service-unavailable text; the same test decides
\* after attempt 1 and after attempt 2.
C23_TransientClass ==
    FailedBeforeLast =>
        /\ h.lastError \in CapacityErrors \cup ModelNotFoundErrors =>
              h.pc = GenPc(h.attempts + 1) /\ h.aiResult = "none"
        /\ h.lastError \in RateLimitErrors \cup MalformedRequestErrors =>
              /\ h.pc = "replyResult" /\ h.aiResult = "unavailable"
              /\ h.responseMessage = ServiceUnavailableText
        /\ h.lastError \in CapacityErrors \cup ModelNotFoundErrors
                              \cup RateLimitErrors \cup MalformedRequestErrors

\* attempt 1 failed with a 503, attempt 2 with a rate-limit error: the call
\* gave up without trying the third model
C23_Witness ==
    /\ h.pc = "replyResult" /\ h.attempts = 2 /\ ~h.succeeded
    /\ h.lastError = Err429 /\ h.aiResult = "unavailable"
    /\ h.models = SubSeq(ModelChain, 1, 2)

-----------------------------------------------------------------------------
\* C24: the prompt built for a query carries the whole dataset that
\* getExpertData returned (the header row and every data row, in their
\* order, nothing dropped or rewritten), and every generateContent call of
\* the chain is passed that same prompt.
ReturnedByCacheManager ==
    IF h.cachePath = "hit" THEN JSONparse(h.cached).value.data ELSE h.freshData

-----------------------------------------------------------------------------
\* C25: the worker reads the cache store, fetches from the data source or
\* answers with dataset content only in a request that passed the whitelist
\* check, on the webhook path as on the /data and /experts path.
C25_DatasetOnlyAfterAuthorization ==
    /\ h.kvGets + h.fetches > 0 \/ ~NoExpertData(h.expertData) => h.authorized
    /\ \A c \in Callers :
          (calls[c].kvGets + calls[c].fetches > 0
              \/ calls[c].body.type = "dataset") => calls[c].authorized

-----------------------------------------------------------------------------
\* C26: a request to /data or /experts that has been answered got status 200
\* with the dataset getExpertData returned, or status 500 with the fixed
\* "Unable to access the expert database" error; the 500 body is the same
\* whatever was thrown and holds nothing of the error; a request that is not
\* answered yet is waiting for an awaited call or about to be answered.
ReturnedToRoute(c) ==
    IF calls[c].cachePath = "hit" THEN calls[c].cached.data ELSE calls[c].freshData

C26_DataRouteResponses ==
    \A c \in Callers :
        /\ calls[c].pc = "responded" =>
              /\ calls[c].path \in {"/data", "/experts"}
              /\ \/ /\ calls[c].status = 200 /\ calls[c].thrown = "none"
                    /\ calls[c].body = DatasetBody(ReturnedToRoute(c))
                 \/ /\ calls[c].status = 500 /\ calls[c].thrown # "none"
                    /\ calls[c].body.type = "error"
                    /\ calls[c].body.error = UnableToAccessText
                    /\ calls[c].body.data = NoSheet
        /\ calls[c].pc # "responded" => calls[c].status = 0 /\ calls[c].body = NoBody
        /\ calls[c].pc \in {"returned", "threw"} => ENABLED RouteRespond(c)

\* a data-source failure and a cache-store failure answered alike
C26_Witness ==
    /\ calls[1].pc = "responded" /\ calls[1].thrown = "SheetsUnavailableError"
    /\ calls[2].pc = "responded" /\ calls[2].thrown = "KVError"
    /\ calls[1].status = 500 /\ calls[2].status = 500
    /\ calls[1].body = calls[2].body
    /\ calls[1].path # calls[2].path

-----------------------------------------------------------------------------
(* Calls of getExpertData one after another, inside and past the window.   *)

\* call w fetched a snapshot and its write reached the store; its record
\* carries the timestamp read when the fetch completed
Persisted(w) ==
    /\ calls[w].pc = "responded" /\ calls[w].fetches = 1
    /\ calls[w].kvPuts = 1 /\ ~calls[w].putFailed

\* call c came after call w and no call between them wrote to the store
NextReaderOf(w, c) ==
    /\ w < c
    /\ calls[c].pc = "responded"
    /\ \A d \in Callers : (w < d /\ d < c) => ~Persisted(d)

\* C27 as stated: every call that comes before t + TTL after a call that
\* persisted a snapshot stamped t, with no write in between, returns that
\* snapshot and fetches nothing, and a call at or after t + TTL fetches.
C27_WindowUsesCache_Original ==
    \A w, c \in Callers :
        Persisted(w) /\ NextReaderOf(w, c) =>
            IF calls[c].readAt < calls[w].fetchedAt + 3600000
            THEN /\ calls[c].status = 200
                 /\ calls[c].body = DatasetBody(calls[w].freshData)
                 /\ calls[c].fetches = 0
            ELSE calls[c].fetches = 1

\* C27: a call whose KV.get answers before t + TTL, after a call that
\* persisted a snapshot stamped t with no write in between, returns that
\* snapshot and fetches nothing; one whose KV.get answers at t + TTL or later
\* fetches once; a call whose KV.get is rejected returns no dataset and
\* fetches nothing, whenever it comes.
C27_WindowUsesCache ==
    \A w, c \in Callers :
        Persisted(w) /\ NextReaderOf(w, c) =>
            IF calls[c].thrown = "KVError"
            THEN calls[c].fetches = 0 /\ calls[c].status = 500
            ELSE /\ calls[c].cached = OwnRecord(w)
                 /\ IF calls[c].readAt < calls[w].fetchedAt + 3600000
                    THEN /\ calls[c].cachePath = "hit"
                         /\ calls[c].status = 200
                         /\ calls[c].body = DatasetBody(calls[w].freshData)
                         /\ calls[c].fetches = 0 /\ calls[c].kvPuts = 0
                    ELSE calls[c].cachePath = "expired" /\ calls[c].fetches = 1

\* the second call reads the first call's record one millisecond before it
\* expires
C27_Witness ==
    /\ Persisted(1) /\ NextReaderOf(1, 2)
    /\ calls[2].readAt = calls[1].fetchedAt + 3600000 - 1
    /\ calls[2].cachePath = "hit" /\ calls[2].fetches = 0
    /\ calls[2].body = DatasetBody(calls[1].freshData)
    /\ calls[1].freshData = SheetB

-----------------------------------------------------------------------------
\* where a matching call stands after its attempts so far, given how the last
\* of them went: a function of this call's outcomes alone
ExpectedPc(attempts, succeeded, lastError) ==
    IF attempts = 0 THEN "gen1"
    ELSE IF succeeded THEN "replyResult"
    ELSE IF attempts < Len(ModelChain) /\ lastError \in TransientErrors
         THEN GenPc(attempts + 1)
    ELSE "replyResult"

-----------------------------------------------------------------------------
\* the text between position c and the comma before it (or the beginning)
\* is blank
BlankBackToComma(list, c) ==
    \E a \in 1..c :
        /\ a = 1 \/ list[a - 1] = ","
        /\ AllSpace(SubSeq(list, a, c - 1))

\* the text between position d and the comma after it (or the end) is blank
BlankUpToComma(list, d) ==
    \E b \in d..Len(list) :
        /\ b = Len(list) \/ list[b + 1] = ","
        /\ AllSpace(SubSeq(list, d + 1, b))

\* some entry of the comma-separated list is, blanks around it aside, the
\* decimal numeral of n
HasExactEntry(list, n) ==
    \E c, d \in 1..Len(list) :
        /\ c <= d
        /\ Names(SubSeq(list, c, d), n)
        /\ BlankBackToComma(list, c)
        /\ BlankUpToComma(list, d)

\* the whitelist and the id that decide the run's authorization
ListOfKind == IF h.isGroup THEN env.ALLOWED_GROUP_CHAT_IDS ELSE env.ALLOWED_USER_IDS

IdOfKind == IF h.isGroup THEN h.chatId ELSE h.userId

\* C29: a run is authorized exactly when some entry of the whitelist of its
\* chat kind, trimmed, equals the decimal string of the id; an entry that is
\* a proper part of the id or that the id is a proper part of, an empty
\* entry and a "*" entry authorize nothing, and an empty or unset whitelist
\* authorizes no id.
C29_ExactMembership ==
    h.pc # "idle" =>
        /\ h.authorized <=> HasExactEntry(ListOfKind, IdOfKind)
        /\ ListOfKind \in {<<>>, ListCommaOnly, ListWildcard} => ~h.authorized
        /\ (ListOfKind = ListNearSeven /\ IdOfKind = 77) => ~h.authorized
        /\ (ListOfKind = ListNearGroup /\ IdOfKind = 0 - 100) => ~h.authorized
        /\ (ListOfKind = ListPadded /\ IdOfKind = 77) => h.authorized
        /\ (ListOfKind = ListPaddedGroup /\ IdOfKind = 0 - 100) => h.authorized

\* user 77 in a direct chat is denied by the list "7, 7*, *,,777", whose
\* entries begin the id, contain it, are empty or are wildcards
C29_Witness ==
    /\ h.pc = "done" /\ ~h.isGroup /\ h.userId = 77
    /\ env.ALLOWED_USER_IDS = ListNearSeven
    /\ ~h.authorized
    /\ Len(h.outbox) = 1 /\ h.outbox[1].text = DeniedText

-----------------------------------------------------------------------------
\* C30: no error leaves the message handler, whichever of the cache store,
\* the data source, the matching service and the sends fail: an error thrown
\* in the run is in the hands of the inner catch or the run has ended, a
\* rejected send of the failure text, the denial or the usage hint ends the
\* run, and the function given to bot.catch is never called.
C30_NothingEscapes ==
    /\ ~h.escaped
    /\ h.thrown # "none" => h.pc \in {"replyFailure", "done"}
    /\ h.pc = "replyFailure" => h.thrown # "none" /\ ENABLED ReplyFailure
    /\ \A i \in 1..Len(h.outbox) :
          ~h.outbox[i].ok =>
              \/ i = Len(h.outbox) /\ h.pc \in {"replyFailure", "done"}
              \/ /\ i + 1 = Len(h.outbox) /\ h.pc = "done"
                 /\ h.outbox[i + 1].text = GenericFailureText
    /\ h.pc = "replyFailure" /\ h.outbox # <<>> =>
          h.outbox[Len(h.outbox)].parseMode = "MarkdownV2"

\* the entry was stale, the matching service failed, the send of its text
\* was rejected and so was the send of the failure text
C30_Witness ==
    /\ h.pc = "done" /\ ~h.escaped
    /\ h.fetches = 1 /\ h.aiResult = "unavailable" /\ h.thrown = "ReplyError"
    /\ Len(h.outbox) = 2 /\ ~h.outbox[1].ok /\ ~h.outbox[2].ok
    /\ h.outbox[2].text = GenericFailureText

-----------------------------------------------------------------------------
\* the send of the response of findExpertsWithAI was rejected
ResponseSendRejected ==
    /\ h.outbox # <<>>
    /\ h.outbox[1].parseMode = "MarkdownV2" /\ ~h.outbox[1].ok

\* C31: after a rejected send of the response the run makes one more send
\* and no other call: the generic failure text, as a reply to the message,
\* with no parse mode; the dataset is not retrieved again and the matching
\* service is not called again; if that send is rejected too the run has
\* ended with nothing delivered.
C31_OneFurtherSend ==
    ResponseSendRejected =>
        /\ h.pc \in {"replyFailure", "done"}
        /\ h.thrown = "ReplyError"
        /\ h.kvGets = 1 /\ h.fetches <= 1 /\ h.kvPuts = h.fetches
        /\ h.listCalls <= 1 /\ h.genCalls <= Len(ModelChain)
        /\ h.aiResult = "noData" <=> h.listCalls = 0
        /\ h.listCalls = 0 => h.genCalls = 0
        /\ h.outbox[1].text = h.responseMessage
        /\ h.pc = "replyFailure" => Len(h.outbox) = 1
        /\ h.pc = "done" =>
              /\ Len(h.outbox) = 2
              /\ h.outbox[2].text = GenericFailureText
              /\ h.outbox[2].replyTo = h.messageId
              /\ h.outbox[2].parseMode = "none"
              /\ ~h.outbox[2].ok => \A i \in 1..Len(h.outbox) : ~h.outbox[i].ok

\* a group message whose answer was rejected by the platform and whose
\* failure text was delivered
C31_Witness ==
    /\ ResponseSendRejected /\ h.pc = "done" /\ h.isGroup
    /\ h.aiResult = "answer" /\ h.genCalls = 2 /\ h.fetches = 1
    /\ Len(h.outbox) = 2 /\ h.outbox[2].ok
    /\ h.outbox[2].text = GenericFailureText

-----------------------------------------------------------------------------
\* the call has ended by throwing or has been answered
Ended(c) == calls[c].pc \in {"threw", "responded"}

\* the entry read cannot be parsed as JSON
ReadUnparseable(c) ==
    calls[c].kvGets = 1 /\ calls[c].thrown # "KVError"
        /\ calls[c].cached \in {KvGarbage, KvEmpty}

\* C32 as stated: a call whose KV.get is rejected or which reads an entry
\* that cannot be parsed fails without fetching and without writing, and the
\* entry stays.
C32_BadEntryFailsEveryCall_Original ==
    \A c \in Callers :
        (calls[c].thrown = "KVError" \/ ReadUnparseable(c)) =>
            /\ Ended(c) /\ calls[c].thrown \in {"KVError", "SyntaxError"}
            /\ calls[c].fetches = 0 /\ calls[c].kvPuts = 0
            /\ ReadUnparseable(c) => kv = calls[c].cached

\* C32: a call of getExpertData whose KV.get is rejected, or which finds a
\* non-empty entry that is not JSON, throws without fetching and without
\* writing to the store; that entry stays in the store, whatever time
\* passes, and as long as it is there every call that has ended has failed
\* in one of these two ways and the store has never been written; an empty
\* entry is taken for a missing one, and the call goes on to fetch.
C32_BadEntryFailsEveryCall ==
    /\ \A c \in Callers :
          calls[c].thrown \in {"KVError", "SyntaxError"} =>
              /\ Ended(c)
              /\ calls[c].kvGets = 1
              /\ calls[c].fetches = 0 /\ calls[c].kvPuts = 0
              /\ calls[c].result = NoSheet
              /\ calls[c].pc = "responded" =>
                     calls[c].status = 500 /\ calls[c].body.type = "error"
    /\ \A c \in Callers :
          /\ calls[c].thrown = "SyntaxError" <=>
                (calls[c].kvGets = 1 /\ calls[c].cached = KvGarbage)
          /\ calls[c].thrown = "SyntaxError" => kv = KvGarbage
          /\ (calls[c].kvGets = 1 /\ calls[c].cached = KvEmpty) =>
                calls[c].cachePath = "miss"
    /\ kv = KvGarbage =>
          /\ landed = <<>>
          /\ \A c \in Callers :
                /\ calls[c].fetches = 0 /\ calls[c].kvPuts = 0
                /\ Ended(c) => calls[c].thrown \in {"KVError", "SyntaxError"}

\* two requests, more than TTL apart, both failed on the entry that is not
\* JSON, which is still in the store
C32_Witness ==
    /\ kv = KvGarbage
    /\ calls[1].pc = "responded" /\ calls[1].thrown = "SyntaxError"
    /\ calls[2].pc = "responded" /\ calls[2].thrown = "SyntaxError"
    /\ calls[2].readAt - calls[1].readAt >= 3600000
    /\ calls[1].status = 500 /\ calls[2].status = 500

-----------------------------------------------------------------------------
\* the call has read an entry that is JSON
ReadJson(c) ==
    calls[c].kvGets = 1 /\ calls[c].thrown # "KVError"
        /\ calls[c].cached.kind = "json"

\* C33: an entry with a timestamp is a hit exactly when the clock read after
\* KV.get is less than timestamp + TTL, so an entry stamped ahead of the
\* clock is served without a fetch also when its age is negative and also
\* TTL after it was first served; an entry without a timestamp is never a
\* hit: the call takes the refresh path and, the credentials being usable,
\* fetches once.
C33_FutureAndMissingTimestamp ==
    \A c \in Callers :
        /\ (ReadJson(c) /\ calls[c].cached.hasTs) =>
              /\ calls[c].cachePath = "hit" <=>
                    calls[c].readAt < calls[c].cached.ts + 3600000
              /\ calls[c].readAt < calls[c].cached.ts => calls[c].cachePath = "hit"
              /\ calls[c].cachePath = "hit" =>
                    /\ calls[c].fetches = 0 /\ calls[c].kvPuts = 0
                    /\ calls[c].result = calls[c].cached.data
        /\ (ReadJson(c) /\ ~calls[c].cached.hasTs) =>
              /\ calls[c].cachePath = "expired"
              /\ (Ended(c) /\ env.credentialsOk) => calls[c].fetches = 1
              /\ ~env.credentialsOk =>
                    calls[c].thrown = "SheetsUnavailableError"

\* the entry stamped ahead of the clock is served when its age is negative
\* and again exactly TTL later
C33_Witness ==
    /\ kv = CacheEntry(StampAhead, SheetA) /\ landed = <<>>
    /\ calls[1].pc = "responded" /\ calls[1].cachePath = "hit"
    /\ calls[1].readAt < calls[1].cached.ts
    /\ calls[2].pc = "responded" /\ calls[2].cachePath = "hit"
    /\ calls[2].readAt = calls[1].readAt + 3600000
    /\ calls[2].fetches = 0 /\ calls[2].body = DatasetBody(SheetA)

-----------------------------------------------------------------------------
\* C34: an attempt that returns without error ends the chain, whatever its
\* text: no generateContent call follows it, the models tried are those up
\* to the one that returned, and when the text is empty the fixed
\* no-answer text is returned and sent in its place.
C34_EmptyTextIsSuccess ==
    /\ h.aiResult = "answer" => h.pc \in {"replyResult", "replyFailure", "done"}
    /\ h.succeeded =>
          /\ h.pc = "replyResult" /\ h.aiResult = "answer"
          /\ h.rawText = h.answerText
          /\ h.attempts \in 1..Len(ModelChain)
          /\ h.genCalls = h.attempts
          /\ h.models = SubSeq(ModelChain, 1, h.attempts)
          /\ h.rawText = "" =>
                h.responseMessage = "Ne udalos poluchit otvet ot AI."
    /\ (h.aiResult = "answer" /\ h.answerText = "" /\ h.outbox # <<>>) =>
          /\ h.outbox[1].text = "Ne udalos poluchit otvet ot AI."
          /\ h.genCalls \in 1..Len(ModelChain)

\* the first model returned an empty text: the chain stopped there
C34_Witness ==
    /\ h.pc = "replyResult" /\ h.succeeded /\ h.rawText = ""
    /\ h.attempts = 1 /\ h.genCalls = 1 /\ h.models = <<ModelChain[1]>>
    /\ h.responseMessage = NoAnswerText

\* number of rows of a dataset, the header row included
RowCount(data) == IF data.hasValues THEN Len(data.values) ELSE 0

\* C35: a dataset with no rows or fewer than 2 rows makes findExpertsWithAI
\* return the fixed no-database text without any model-listing or
\* generation call, and the handler sends that text like a match response:
\* one reply to the message, with MarkdownV2; a dataset with a data row
\* never gets that outcome
C35_NoDataNoMatchingCall ==
    /\ (h.aiEntered /\ RowCount(h.expertData) < 2) =>
          /\ h.pc = "replyResult"
          /\ h.aiResult = "noData"
          /\ h.responseMessage = NoDatabaseText
          /\ h.listCalls = 0 /\ h.genCalls = 0
          /\ h.outbox = <<>>
    /\ (h.aiEntered /\ RowCount(h.expertData) >= 2) => h.aiResult # "noData"
    /\ h.aiResult = "noData" =>
          /\ RowCount(h.expertData) < 2
          /\ h.listCalls = 0 /\ h.genCalls = 0
          /\ h.pc \in {"replyResult", "replyFailure", "done"}
          /\ h.pc # "replyResult" =>
                /\ Len(h.outbox) >= 1
                /\ h.outbox[1].text = NoDatabaseText
                /\ h.outbox[1].replyTo = h.messageId
                /\ h.outbox[1].parseMode = "MarkdownV2"

\* a run over a header-only dataset has ended with the fixed text delivered
\* as its only message, after an earlier run
C35_Witness ==
    /\ h.pc = "done"
    /\ h.aiResult = "noData"
    /\ kv.data = SheetHeaderOnly
    /\ h.outbox = <<Sent(NoDatabaseText, h.messageId, "MarkdownV2", TRUE)>>
    /\ h.listCalls = 0 /\ h.genCalls = 0
    /\ h.earlier # <<>>

\* C36: the model listing is called once, before the primary attempt, in a
\* run that reaches the matching service and never otherwise; whether it
\* failed or not, the call goes on to the primary model with the prompt
\* built from the query and the dataset, nothing tried, nothing returned and
\* nothing sent so far, and the first generation call is made on the
\* primary model
C36_ListingOnceAndHarmless ==
    /\ [](/\ h.listCalls <= 1
          /\ h.genCalls > 0 => h.listCalls = 1
          /\ h.listCalls = 1 => (h.pc = "gen1" \/ h.genCalls >= 1)
          /\ h.listFailed => h.pc = "gen1"
          /\ h.pc = "gen1" =>
                /\ h.listCalls = 1 /\ h.genCalls = 0
                /\ h.attempts = 0 /\ h.models = <<>> /\ h.contents = <<>>
                /\ h.prompt = createExpertMatchingPrompt(h.query, h.expertData.values)
                /\ h.aiResult = "none" /\ h.responseMessage = ""
                /\ h.thrown = "none" /\ h.outbox = <<>>)
    /\ [][(h.pc = "gen1" /\ h'.pc # "gen1") =>
            /\ h'.models = <<ModelChain[1]>>
            /\ h'.contents = <<h.prompt>>
            /\ h'.genCalls = 1 /\ h'.listCalls = 1
            /\ h'.pc \in {"gen2", "replyResult"}
            /\ h'.pc = "replyResult" =>
                  h'.responseMessage \in
                     {TextOrDefault(t) : t \in ResponseTexts} \cup {ServiceUnavailableText}]_vars

\* the listing of an authorized run has failed and the run stands before its
\* primary attempt with the prompt built
C36_Witness ==
    /\ h.pc = "gen1" /\ h.listFailed
    /\ h.listCalls = 1 /\ h.genCalls = 0
    /\ h.prompt # NoPrompt
    /\ h.earlier # <<>>

\* C37: in a group or supergroup chat the query extracted contains no
\* occurrence of the mention token, in any letter case, and extracting
\* again from the query returns the query
C37_ExtractionIdempotent ==
    (h.pc # "idle" /\ h.authorized /\ h.chatType \in {"group", "supergroup"}) =>
        /\ \A i \in 1..Len(h.query) : ~MentionOccursAt(h.query, i)
        /\ ExtractQuery(h.query, TRUE) = h.query

\* the request of caller c made no call to the cache store, the data source
\* or the bot
NoCallMade(c) ==
    /\ calls[c].kvGets = 0 /\ calls[c].fetches = 0 /\ calls[c].kvPuts = 0
    /\ calls[c].botCalls = 0

\* the request of caller c matches none of the routes
NoRoute(c) ==
    /\ calls[c].path # "/health"
    /\ ~(calls[c].path = "/webhook" /\ calls[c].method = "POST")
    /\ calls[c].path \notin {"/data", "/experts"}

\* C38: a request to /health is answered 200 "OK" and a request matching no
\* route (any method other than POST on /webhook included) is answered 200
\* with the greeting, both in one step that leaves the cache, the clock and
\* the bot's handler untouched and makes no call; the webhook handler is
\* called exactly for a POST to /webhook, and when it throws the response
\* is 500 "Webhook error"
C38_WorkerRouting ==
    /\ [](\A c \in Callers :
            /\ calls[c].botCalls = 1 <=>
                  (calls[c].path = "/webhook" /\ calls[c].method = "POST")
            /\ calls[c].botCalls <= 1
            /\ calls[c].pc \in {"webhook", "handling"} => calls[c].botCalls = 1
            /\ (calls[c].pc # "idle" /\ calls[c].path = "/health") =>
                  /\ calls[c].pc = "responded"
                  /\ calls[c].status = 200 /\ calls[c].body = TextBody("OK")
                  /\ NoCallMade(c)
            /\ (calls[c].pc # "idle" /\ NoRoute(c)) =>
                  /\ calls[c].pc = "responded"
                  /\ calls[c].status = 200
                  /\ calls[c].body = TextBody(GreetingText)
                  /\ NoCallMade(c)
            /\ (calls[c].botCalls = 1 /\ calls[c].thrown # "none") =>
                  /\ calls[c].pc = "responded"
                  /\ calls[c].status = 500
                  /\ calls[c].body = TextBody(WebhookErrorText))
    /\ [][\A c \in Callers :
            (calls[c].pc = "idle" /\ calls'[c].pc # "idle"
                /\ (calls'[c].path = "/health"
                      \/ calls'[c].path \notin {"/webhook", "/data", "/experts"}
                      \/ (calls'[c].path = "/webhook" /\ calls'[c].method # "POST")))
            => UNCHANGED <<h, kv, landed, served, now>>]_vars

\* a GET on /webhook has been answered with the greeting and, after it, a
\* POST on /webhook whose handler threw with 500 "Webhook error", the
\* message handler having run for it
C38_Witness ==
    /\ calls[1].pc = "responded"
    /\ calls[1].path = "/webhook" /\ calls[1].method = "GET"
    /\ calls[1].status = 200 /\ calls[1].body = TextBody(GreetingText)
    /\ calls[2].pc = "responded"
    /\ calls[2].path = "/webhook" /\ calls[2].method = "POST"
    /\ calls[2].status = 500 /\ calls[2].body = TextBody(WebhookErrorText)
    /\ served = 1

====
